---- MODULE Spec2Model ----
(***************************************************************************)
(* Verification model of dashboard-atendimento-v3: the loading pipeline    *)
(* (carregar_dados, validar_colunas, validar_dados), the dashboard         *)
(* dispatcher (criar_dashboard) and the metric derivations of the tabs     *)
(* (turno, ociosidade, comboio, movimentacao).                             *)
(*                                                                         *)
(* The program has no shared runtime state: every subsystem is a handler   *)
(* that runs from its inputs to its result.  Each subsystem has its own    *)
(* variables and its own specification; in a specification the variables   *)
(* of the other subsystems rest at their idle values.                      *)
(***************************************************************************)
EXTENDS Integers, Sequences, FiniteSets, TLC

VARIABLES
    \* carregar_dados (processamento/carregar_dados)
    cd_version,     \* which saved version of carregar_dados runs
    arquivos,       \* the uploaded files among base, codigo, medias
    cd_pc,          \* position inside carregar_dados
    df_base,        \* the base table (columns and rows), or None
    df_codigo,      \* the code table, or None
    df_medias,      \* the averages table, or None
    df_final,       \* the merged table, or None
    retorno,        \* what carregar_dados returned (Pendente while running)
    mensagens,      \* st.error / st.sidebar.error / warning calls, in order
    excecao,        \* the exception that escaped carregar_dados, or "none"
    cd_falha,       \* history: the step of carregar_dados that raised, or "none"
    vc_chamada,     \* history: argument and outcome of the validar_colunas call
    vd_chamada,     \* history: argument and outcome of the validar_dados call
    \* criar_dashboard (visualizacao/gerar_dashboard)
    gd_version,     \* which saved version of criar_dashboard runs
    dados,          \* the dados argument: "None" or the loaded data
    filtros,        \* the filtros argument: "None" or the chosen filters
    tipo_dashboard, \* the tipo_dashboard argument
    gd_pc,          \* position inside criar_dashboard: Entrada, NoBloco(k), Fim
    invocadas,      \* the modules whose mostrar_aba was called, in order
    levantaram,     \* history: the blocks whose mostrar_aba raised
    relatos,        \* the st.error calls of the blocks, with the tab they are in
    avisos,         \* the st.info calls, with the tab they are in (0: the page)
    \* turno of a ticket (espera, mov_operacao, ociosidade)
    tn_retirada,    \* the retirada Timestamp of the ticket, or None
    tn_espera,      \* determinar_turno of espera on it ("none" before the call)
    tn_mov,         \* get_turno of mov_operacao on its hour
    tn_ocio,        \* get_turno of ociosidade on its hour
    tn_inicio,      \* the inicio Timestamp of the ticket, or None
    tn_colab,       \* the turno analisar_colaborador gives the ticket
    \* calcular_ociosidade_por_periodo (desenvolvimento_pessoas/ociosidade)
    oc_base,        \* dados['base']: the services, in row order
    oc_filtros,     \* the filtros argument, or None before the call
    oc_periodo,     \* the periodo argument
    oc_pc,          \* "chamada" before the call, "done" after it
    oc_filtrado,    \* history: df_filtrado, the rows that passed the filters
    oc_lista,       \* history: the list `ociosidade`, one entry per day
    oc_resultado,   \* the returned table: one row per collaborator
    oc_avisos,      \* the st.warning calls
    \* the insights of mostrar_aba (operacoes_clientes/comboio_i)
    cb_base,        \* dados['base']: the ticket withdrawals, in row order
    cb_filtros,     \* filtros['periodo2'], the range of the heat map
    cb_pc,          \* "chamada" before the call, "done" after it
    cb_contagens,   \* comboios_por_data: withdrawals per (data, periodo_15min)
    cb_comboios,    \* comboios: the rows groupby(...).filter kept
    cb_threshold,   \* threshold, the alert limit (0 until computed)
    cb_lista,       \* whether the items of 'Períodos Críticos' were written
    cb_criticos,    \* the quantities written in that list, in order
    cb_erro,        \* whether the except branch reported an error
    \* mostrar_aba of mov_cliente and of mov_operacao (operacoes_clientes)
    mv_modulo,      \* which of the two tabs runs
    mv_base,        \* dados['base']: the tickets, in row order
    mv_filtros,     \* the filtros argument
    mv_pc,          \* position inside mostrar_aba
    mv_p1,          \* mov_p1: the table of periodo1 (key, quantidade)
    mv_p2,          \* mov_p2: the table of periodo2
    mv_filtrado,    \* history: df_filtrado of each period
    mv_comparou,    \* whether criar_grafico_comparativo was called
    mv_comp,        \* df_comp: the rows of the comparison, in chart order
    mv_msgs,        \* the st.warning / st.error calls, in order
    mv_desenhos,    \* what mostrar_aba drew after the tables: chart, insights
    \* calcular_gates_hora (operacoes_clientes/gates_hora)
    gt_base,        \* dados['base']: the services, in row order
    gt_args,        \* filtros['periodo2'], cliente, operacao, data_especifica
    gt_pc,          \* "chamada" before the call, "done" after it
    gt_filtrado,    \* df_filtrado, the second value returned
    gt_metricas,    \* metricas_hora: the rows of the table, in order
    gt_detalhes,    \* detalhes_gates: per hour the rows of the active gates
    \* criar_mapa_calor (operacoes_clientes/comboio_i)
    mc_base,        \* dados['base']: the ticket withdrawals, in row order
    mc_args,        \* filtros['periodo2'] and the cliente argument
    mc_pc,          \* "chamada" before the call, "done" after it
    mc_filtrado,    \* history: df_filtrado
    mc_pivot        \* the pivot returned: columns, index and values

cdVars == <<cd_version, arquivos, cd_pc, df_base, df_codigo, df_medias,
            df_final, retorno, mensagens, excecao, cd_falha, vc_chamada,
            vd_chamada>>

gdVars == <<gd_version, dados, filtros, tipo_dashboard, gd_pc, invocadas,
            levantaram, relatos, avisos>>

tnVars == <<tn_retirada, tn_espera, tn_mov, tn_ocio, tn_inicio, tn_colab>>

ocVars == <<oc_base, oc_filtros, oc_periodo, oc_pc, oc_filtrado, oc_lista,
            oc_resultado, oc_avisos>>

cbVars == <<cb_base, cb_filtros, cb_pc, cb_contagens, cb_comboios,
            cb_threshold, cb_lista, cb_criticos, cb_erro>>

mvVars == <<mv_modulo, mv_base, mv_filtros, mv_pc, mv_p1, mv_p2, mv_filtrado,
            mv_comparou, mv_comp, mv_msgs, mv_desenhos>>

gtVars == <<gt_base, gt_args, gt_pc, gt_filtrado, gt_metricas, gt_detalhes>>

mcVars == <<mc_base, mc_args, mc_pc, mc_filtrado, mc_pivot>>

vars == <<cdVars, gdVars, tnVars, ocVars, cbVars, mvVars, gtVars, mcVars>>

\* What each subsystem leaves alone: the variables of the others
foraCd == <<gdVars, tnVars, ocVars, cbVars, mvVars, gtVars, mcVars>>
foraGd == <<cdVars, tnVars, ocVars, cbVars, mvVars, gtVars, mcVars>>
foraTn == <<cdVars, gdVars, ocVars, cbVars, mvVars, gtVars, mcVars>>
foraOc == <<cdVars, gdVars, tnVars, cbVars, mvVars, gtVars, mcVars>>
foraCb == <<cdVars, gdVars, tnVars, ocVars, mvVars, gtVars, mcVars>>
foraMv == <<cdVars, gdVars, tnVars, ocVars, cbVars, gtVars, mcVars>>
foraGt == <<cdVars, gdVars, tnVars, ocVars, cbVars, mvVars, mcVars>>
foraMc == <<cdVars, gdVars, tnVars, ocVars, cbVars, mvVars, gtVars>>

\* ------------------------------------------------------------------------
\* Bounds of the model
\* ------------------------------------------------------------------------
MaxRegistros == 2
MaxAtendimentos == 3
MaxRetiradas == 4
MaxTickets == 3
MaxServicos == 3

\* ------------------------------------------------------------------------
\* Generic helpers
\* ------------------------------------------------------------------------
NoneVal == [kind |-> "None"]
Pendente == [kind |-> "Pendente"]

SeqsUpTo(S, n) == UNION {[1..k -> S] : k \in 0..n}

Range(s) == {s[i] : i \in DOMAIN s}

RECURSIVE SumSeq(_)
SumSeq(s) == IF s = <<>> THEN 0 ELSE Head(s) + SumSeq(Tail(s))

\* ------------------------------------------------------------------------
\* The idle state of each subsystem: its handler has not been called
\* ------------------------------------------------------------------------
Parado == [fase |-> "idle"]

CdIdle ==
    /\ cd_version = "v0414"
    /\ arquivos = {}
    /\ cd_pc = "idle"
    /\ df_base = NoneVal
    /\ df_codigo = NoneVal
    /\ df_medias = NoneVal
    /\ df_final = NoneVal
    /\ retorno = Pendente
    /\ mensagens = <<>>
    /\ excecao = "none"
    /\ cd_falha = "none"
    /\ vc_chamada = NoneVal
    /\ vd_chamada = NoneVal

GdIdle ==
    /\ gd_version = "v0414"
    /\ dados = "None"
    /\ filtros = "None"
    /\ tipo_dashboard = "Outro"
    /\ gd_pc = Parado
    /\ invocadas = <<>>
    /\ levantaram = {}
    /\ relatos = <<>>
    /\ avisos = <<>>

TnIdle ==
    /\ tn_retirada = NoneVal
    /\ tn_espera = "none"
    /\ tn_mov = "none"
    /\ tn_ocio = "none"
    /\ tn_inicio = NoneVal
    /\ tn_colab = "none"

OcIdle ==
    /\ oc_base = <<>>
    /\ oc_filtros = NoneVal
    /\ oc_periodo = "none"
    /\ oc_pc = "idle"
    /\ oc_filtrado = <<>>
    /\ oc_lista = <<>>
    /\ oc_resultado = {}
    /\ oc_avisos = <<>>

CbIdle ==
    /\ cb_base = <<>>
    /\ cb_filtros = NoneVal
    /\ cb_pc = "idle"
    /\ cb_contagens = {}
    /\ cb_comboios = <<>>
    /\ cb_threshold = 0
    /\ cb_lista = FALSE
    /\ cb_criticos = <<>>
    /\ cb_erro = FALSE

MvIdle ==
    /\ mv_modulo = "none"
    /\ mv_base = <<>>
    /\ mv_filtros = NoneVal
    /\ mv_pc = "idle"
    /\ mv_p1 = <<>>
    /\ mv_p2 = <<>>
    /\ mv_filtrado = [periodo1 |-> <<>>, periodo2 |-> <<>>]
    /\ mv_comparou = FALSE
    /\ mv_comp = <<>>
    /\ mv_msgs = <<>>
    /\ mv_desenhos = <<>>

GtIdle ==
    /\ gt_base = <<>>
    /\ gt_args = NoneVal
    /\ gt_pc = "idle"
    /\ gt_filtrado = <<>>
    /\ gt_metricas = <<>>
    /\ gt_detalhes = <<>>

McIdle ==
    /\ mc_base = <<>>
    /\ mc_args = NoneVal
    /\ mc_pc = "idle"
    /\ mc_filtrado = <<>>
    /\ mc_pivot = NoneVal

\* Every subsystem but `sub` rests idle
OutrosParados(sub) ==
    /\ IF sub = "cd" THEN TRUE ELSE CdIdle
    /\ IF sub = "gd" THEN TRUE ELSE GdIdle
    /\ IF sub = "tn" THEN TRUE ELSE TnIdle
    /\ IF sub = "oc" THEN TRUE ELSE OcIdle
    /\ IF sub = "cb" THEN TRUE ELSE CbIdle
    /\ IF sub = "mv" THEN TRUE ELSE MvIdle
    /\ IF sub = "gt" THEN TRUE ELSE GtIdle
    /\ IF sub = "mc" THEN TRUE ELSE McIdle

\* ------------------------------------------------------------------------
\* Column names are Python strings: sequences of characters, so that
\* str.lower() and str.strip() are computed and not assumed.
\* ------------------------------------------------------------------------
Maiusculas == <<"A","B","C","D","E","F","G","H","I","J","K","L","M","N","O",
                "P","Q","R","S","T","U","V","W","X","Y","Z","Ç","Ã","Á","Ê">>
Minusculas == <<"a","b","c","d","e","f","g","h","i","j","k","l","m","n","o",
                "p","q","r","s","t","u","v","w","x","y","z","ç","ã","á","ê">>

LowerChar(c) ==
    IF \E i \in DOMAIN Maiusculas : Maiusculas[i] = c
    THEN Minusculas[CHOOSE i \in DOMAIN Maiusculas : Maiusculas[i] = c]
    ELSE c

\* str.lower()
Lower(s) == [i \in DOMAIN s |-> LowerChar(s[i])]

RECURSIVE LStrip(_)
LStrip(s) == IF s # <<>> /\ Head(s) = " " THEN LStrip(Tail(s)) ELSE s

RECURSIVE RStrip(_)
RStrip(s) ==
    IF s # <<>> /\ s[Len(s)] = " " THEN RStrip(SubSeq(s, 1, Len(s) - 1)) ELSE s

\* str.strip()
Strip(s) == RStrip(LStrip(s))

\* The standard column names
n_status   == <<"s","t","a","t","u","s">>
n_guiche   == <<"g","u","i","c","h","ê">>
n_usuario  == <<"u","s","u","á","r","i","o">>
n_retirada == <<"r","e","t","i","r","a","d","a">>
n_inicio   == <<"i","n","i","c","i","o">>
n_fim      == <<"f","i","m">>
n_tpatend  == <<"t","p","a","t","e","n","d">>
n_tpesper  == <<"t","p","e","s","p","e","r">>
n_prefixo  == <<"p","r","e","f","i","x","o">>
n_id       == <<"i","d">>

\* mapa_colunas of validar_colunas, in the order of the dict literal
mapa_colunas == <<
    <<<<"s","t","a","t","u","s","_","d","e","s","c","r","i","c","a","o">>, n_status>>,
    <<<<"s","t","a","t","u","s"," ","d","e","s","c","r","i","ç","ã","o">>, n_status>>,
    <<<<"S","t","a","t","u","s"," ","D","e","s","c","r","i","ç","ã","o">>, n_status>>,
    <<<<"S","t","a","t","u","s">>, n_status>>,
    <<<<"S","T","A","T","U","S">>, n_status>>,
    <<<<"g","u","i","c","h","e">>, n_guiche>>,
    <<<<"g","u","i","c","h","ê">>, n_guiche>>,
    <<<<"G","u","i","c","h","ê">>, n_guiche>>,
    <<<<"G","u","i","c","h","e">>, n_guiche>>,
    <<<<"G","U","I","C","H","E">>, n_guiche>>,
    <<<<"u","s","u","a","r","i","o">>, n_usuario>>,
    <<<<"u","s","u","á","r","i","o">>, n_usuario>>,
    <<<<"U","s","u","á","r","i","o">>, n_usuario>>,
    <<<<"U","s","u","a","r","i","o">>, n_usuario>>,
    <<<<"U","S","U","A","R","I","O">>, n_usuario>>,
    <<n_retirada, n_retirada>>,
    <<n_inicio, n_inicio>>,
    <<n_fim, n_fim>>,
    <<n_tpatend, n_tpatend>>,
    <<n_tpesper, n_tpesper>> >>

\* colunas_obrigatorias of validar_colunas
colunas_obrigatorias ==
    <<n_status, n_guiche, n_usuario, n_retirada, n_inicio, n_fim,
      n_tpatend, n_tpesper, n_prefixo>>

\* df.rename(columns={de: para}): every column labelled `de` is relabelled
RenameColuna(cols, de, para) ==
    [j \in DOMAIN cols |-> IF cols[j] = de THEN para ELSE cols[j]]

\* key.lower() for every key of mapa_colunas
ChavesLower == [k \in DOMAIN mapa_colunas |-> Lower(mapa_colunas[k][1])]

\* Mutant of RenomearUma: the column name is lower-cased but not stripped
RenomearUma_Mut(cols, col_atual) ==
    LET col_lower == Lower(col_atual)
        hits == {k \in DOMAIN mapa_colunas : ChavesLower[k] = col_lower}
    IN  IF hits = {} THEN cols
        ELSE LET k == CHOOSE h \in hits : \A o \in hits : h <= o
             IN  RenameColuna(cols, col_atual, mapa_colunas[k][2])

\* The inner loop of validar_colunas: the first key of mapa_colunas whose
\* lower-case form equals col_lower decides the new name; no key, no rename.
RenomearUma(cols, col_atual) ==
    LET col_lower == Strip(Lower(col_atual))
        hits == {k \in DOMAIN mapa_colunas : ChavesLower[k] = col_lower}
    IN  IF hits = {} THEN cols
        ELSE LET k == CHOOSE h \in hits : \A o \in hits : h <= o
             IN  RenameColuna(cols, col_atual, mapa_colunas[k][2])

\* The outer loop: col_atual ranges over the columns of the table as read
RECURSIVE RenomearTodas(_, _, _)
RenomearTodas(cols, originais, i) ==
    IF i > Len(originais) THEN cols
    ELSE RenomearTodas(RenomearUma(cols, originais[i]), originais, i + 1)

ColunasFaltantes(cols) ==
    SelectSeq(colunas_obrigatorias, LAMBDA c : c \notin Range(cols))

\* validar_colunas(df): the renamed columns, and ValueError when a mandatory
\* column is missing after the renaming
validar_colunas(cols) ==
    LET novas == RenomearTodas(cols, cols, 1)
        faltantes == ColunasFaltantes(novas)
    IN  IF faltantes # <<>>
        THEN [raised |-> "ValueError", columns |-> novas, faltantes |-> faltantes]
        ELSE [raised |-> "none", columns |-> novas, faltantes |-> faltantes]

\* ------------------------------------------------------------------------
\* validar_dados
\* ------------------------------------------------------------------------
TPATEND_MIN == 60
TPATEND_MAX == 1800
TPESPER_MAX == 14400

StatusValidos == {"ATENDIDO", "TRANSFERIDA"}

\* Mutant of MascaraValidacao: the lower bound of tpatend taken as exclusive
MascaraValidacao_Mut(r) ==
    /\ r.tpatend > TPATEND_MIN
    /\ r.tpatend <= TPATEND_MAX
    /\ r.tpesper <= TPESPER_MAX
    /\ r.status \in StatusValidos

\* The boolean mask of validar_dados for one row
MascaraValidacao(r) ==
    /\ r.tpatend >= TPATEND_MIN
    /\ r.tpatend <= TPATEND_MAX
    /\ r.tpesper <= TPESPER_MAX
    /\ r.status \in StatusValidos

\* validar_dados(df): conv_ok is whether the three pd.to_datetime calls
\* succeed; on any exception the function shows an error and returns None
validar_dados(rows, conv_ok) ==
    IF conv_ok
    THEN [kind |-> "df", rows |-> SelectSeq(rows, MascaraValidacao)]
    ELSE NoneVal

\* ------------------------------------------------------------------------
\* carregar_dados: inputs
\* ------------------------------------------------------------------------
Versoes == {"v0412", "v0414"}
Arquivos == {"base", "codigo", "medias"}

\* Rows of the base table as read; prefixo "Z" has no entry in any code table
RegistrosValidacao ==
    [status : {"ATENDIDO", "TRANSFERIDA", "CANCELADO"},
     tpatend : {59, 60, 1800, 1801},
     tpesper : {14400, 14401},
     prefixo : {"A"}]

RegistrosCarga ==
    [status : {"ATENDIDO", "CANCELADO"},
     tpatend : {59, 60},
     tpesper : {14400},
     prefixo : {"A", "Z"}]
    \cup [status : {"TRANSFERIDA"}, tpatend : {1800}, tpesper : {14401},
          prefixo : {"A"}]

\* Header rows of the base spreadsheet
ColunasPadrao ==
    <<n_status, n_guiche, n_usuario, n_retirada, n_inicio, n_fim,
      n_tpatend, n_tpesper, n_prefixo, n_id>>
ColunasVariantes ==
    <<<<"S","t","a","t","u","s"," ","D","e","s","c","r","i","ç","ã","o">>,
      <<"G","U","I","C","H","E">>, <<"U","s","u","a","r","i","o">>,
      <<" ","R","e","t","i","r","a","d","a"," ">>, <<"I","N","I","C","I","O">>,
      n_fim, <<"T","p","A","t","e","n","d">>, n_tpesper, n_prefixo>>
ColunasSemPrefixo ==
    <<n_status, n_guiche, n_usuario, n_retirada, n_inicio, n_fim,
      n_tpatend, n_tpesper, <<"P","r","e","f","i","x","o">>>>
ColunasSemStatus ==
    <<n_guiche, n_usuario, n_retirada, n_inicio, n_fim,
      n_tpatend, n_tpesper, n_prefixo>>

LayoutsCarga == {ColunasPadrao, ColunasVariantes, ColunasSemPrefixo, ColunasSemStatus}

TabelasBase ==
    [kind : {"df"}, columns : LayoutsCarga,
     rows : SeqsUpTo(RegistrosCarga, MaxRegistros)]

\* The code spreadsheet: its columns and its rows
TabelasCodigo ==
    { [kind |-> "df", columns |-> {"prefixo", "CLIENTE", "OPERAÇÃO"},
       rows |-> <<[prefixo |-> "A", CLIENTE |-> "C1", OPERACAO |-> "O1"]>>],
      [kind |-> "df", columns |-> {"prefixo", "CLIENTE", "OPERAÇÃO"},
       rows |-> <<[prefixo |-> "A", CLIENTE |-> "C1", OPERACAO |-> "O1"],
                  [prefixo |-> "A", CLIENTE |-> "C2", OPERACAO |-> "O2"]>>],
      [kind |-> "df", columns |-> {"prefixo", "CLIENTE", "OPERAÇÃO"},
       rows |-> <<>>],
      [kind |-> "df", columns |-> {"prefixo", "OPERAÇÃO"},
       rows |-> <<[prefixo |-> "A", CLIENTE |-> "NaN", OPERACAO |-> "O1"]>>],
      [kind |-> "df", columns |-> {"CLIENTE", "OPERAÇÃO"},
       rows |-> <<[prefixo |-> "NaN", CLIENTE |-> "C1", OPERACAO |-> "O1"]>>] }

TabelaMedias == [kind |-> "df", sheet |-> "DADOS"]

\* ------------------------------------------------------------------------
\* carregar_dados: the except clauses
\* ------------------------------------------------------------------------
\* Mutant of Tratador: v0414 without its outer try/except
Tratador_Mut(v, passo) ==
    IF v = "v0414"
    THEN CASE passo = "read_base"   -> "Erro ao carregar base"
           [] passo = "read_codigo" -> "Erro ao carregar códigos"
           [] passo = "read_medias" -> "Erro ao carregar médias"
           [] OTHER                 -> "nenhum"
    ELSE "Erro ao carregar arquivos"

\* The message of the except clause that catches an exception raised at step
\* `passo` ("nenhum": no clause encloses the step).  v0414 wraps each
\* read_excel in its own try and the whole body in an outer one; v0412 has a
\* single try around everything after the upload test.
Tratador(v, passo) ==
    IF v = "v0414"
    THEN CASE passo = "read_base"   -> "Erro ao carregar base"
           [] passo = "read_codigo" -> "Erro ao carregar códigos"
           [] passo = "read_medias" -> "Erro ao carregar médias"
           [] OTHER                 -> "Erro no carregamento"
    ELSE "Erro ao carregar arquivos"

\* An exception `exc` raised at the current step, after the step itself has
\* shown `antes`: the enclosing except clause shows its message and the
\* function returns None; with no enclosing clause the exception escapes.
Lancar(exc, antes) ==
    /\ cd_pc' = "done"
    /\ cd_falha' = cd_pc
    /\ IF Tratador(cd_version, cd_pc) = "nenhum"
       THEN /\ excecao' = exc
            /\ mensagens' = mensagens \o antes
            /\ retorno' = retorno
       ELSE /\ excecao' = excecao
            /\ mensagens' = mensagens \o antes \o <<Tratador(cd_version, cd_pc)>>
            /\ retorno' = NoneVal

\* ------------------------------------------------------------------------
\* carregar_dados: the steps
\* ------------------------------------------------------------------------
\* if not all([arquivo_base, arquivo_codigo, arquivo_medias]): return None
CdUpload ==
    /\ cd_pc = "upload"
    /\ UNCHANGED foraCd
    /\ IF arquivos = Arquivos
       THEN /\ cd_pc' = "read_base"
            /\ retorno' = retorno
       ELSE /\ cd_pc' = "done"
            /\ retorno' = NoneVal
    /\ UNCHANGED <<cd_version, arquivos, df_base, df_codigo, df_medias,
                   df_final, mensagens, excecao, cd_falha, vc_chamada,
                   vd_chamada>>

\* df_base = pd.read_excel(arquivo_base)
CdReadBase ==
    /\ cd_pc = "read_base"
    /\ UNCHANGED foraCd
    /\ \/ /\ \E t \in TabelasBase : df_base' = t
          /\ cd_pc' = "read_codigo"
          /\ UNCHANGED <<retorno, mensagens, excecao, cd_falha>>
       \/ /\ Lancar("Exception", <<>>)
          /\ UNCHANGED df_base
    /\ UNCHANGED <<cd_version, arquivos, df_codigo, df_medias, df_final,
                   vc_chamada, vd_chamada>>

\* df_codigo = pd.read_excel(arquivo_codigo)
CdReadCodigo ==
    /\ cd_pc = "read_codigo"
    /\ UNCHANGED foraCd
    /\ \/ /\ \E t \in TabelasCodigo : df_codigo' = t
          /\ cd_pc' = "read_medias"
          /\ UNCHANGED <<retorno, mensagens, excecao, cd_falha>>
       \/ /\ Lancar("Exception", <<>>)
          /\ UNCHANGED df_codigo
    /\ UNCHANGED <<cd_version, arquivos, df_base, df_medias, df_final,
                   vc_chamada, vd_chamada>>

\* df_medias = pd.read_excel(arquivo_medias, sheet_name="DADOS")
CdReadMedias ==
    /\ cd_pc = "read_medias"
    /\ UNCHANGED foraCd
    /\ \/ /\ df_medias' = TabelaMedias
          /\ cd_pc' = "validar_colunas"
          /\ UNCHANGED <<retorno, mensagens, excecao, cd_falha>>
       \/ /\ Lancar("Exception", <<>>)
          /\ UNCHANGED df_medias
    /\ UNCHANGED <<cd_version, arquivos, df_base, df_codigo, df_final,
                   vc_chamada, vd_chamada>>

\* df_base = validar_colunas(df_base)
CdValidarColunas ==
    /\ cd_pc = "validar_colunas"
    /\ UNCHANGED foraCd
    /\ LET r == validar_colunas(df_base.columns)
       IN  /\ vc_chamada' = [kind |-> "chamada", entrada |-> df_base.columns,
                              saida |-> r]
           /\ IF r.raised = "none"
              THEN /\ df_base' = [df_base EXCEPT !.columns = r.columns]
                   /\ cd_pc' = "validar_dados"
                   /\ UNCHANGED <<retorno, mensagens, excecao, cd_falha>>
              ELSE /\ Lancar(r.raised, <<"Colunas não encontradas">>)
                   /\ UNCHANGED df_base
    /\ UNCHANGED <<cd_version, arquivos, df_codigo, df_medias, df_final,
                   vd_chamada>>

\* df_base = validar_dados(df_base); if df_base is None: return None
CdValidarDados ==
    /\ cd_pc = "validar_dados"
    /\ UNCHANGED foraCd
    /\ \E conv_ok \in BOOLEAN :
         LET r == validar_dados(df_base.rows, conv_ok)
         IN  /\ vd_chamada' = [kind |-> "chamada", entrada |-> df_base.rows,
                                saida |-> r]
             /\ IF r = NoneVal
                THEN /\ df_base' = NoneVal
                     /\ mensagens' = Append(mensagens, "Erro na validação dos dados")
                     /\ retorno' = NoneVal
                     /\ cd_falha' = cd_pc
                     /\ cd_pc' = "done"
                ELSE /\ df_base' = [df_base EXCEPT !.rows = r.rows]
                     /\ mensagens' = mensagens
                     /\ retorno' = retorno
                     /\ cd_falha' = cd_falha
                     /\ cd_pc' = "merge"
    /\ UNCHANGED <<cd_version, arquivos, df_codigo, df_medias, df_final, excecao,
                   vc_chamada>>

\* The columns of df_codigo the merge needs: v0414 selects
\* df_codigo[['prefixo', 'CLIENTE', 'OPERAÇÃO']], v0412 merges the whole
\* table on 'prefixo'.
ColunasDoMerge(v) ==
    IF v = "v0414" THEN {"prefixo", "CLIENTE", "OPERAÇÃO"} ELSE {"prefixo"}

\* The rows pd.merge(..., on='prefixo', how='left') yields for one base row:
\* one per code row with the same prefixo, or one with CLIENTE and OPERAÇÃO
\* missing when there is none
MergeUma(r, cod_rows) ==
    LET iguais == SelectSeq(cod_rows, LAMBDA c : c.prefixo = r.prefixo)
    IN  IF iguais = <<>>
        THEN <<[status |-> r.status, tpatend |-> r.tpatend, tpesper |-> r.tpesper,
                prefixo |-> r.prefixo, CLIENTE |-> "NaN", OPERACAO |-> "NaN"]>>
        ELSE [i \in DOMAIN iguais |->
                [status |-> r.status, tpatend |-> r.tpatend, tpesper |-> r.tpesper,
                 prefixo |-> r.prefixo, CLIENTE |-> iguais[i].CLIENTE,
                 OPERACAO |-> iguais[i].OPERACAO]]

RECURSIVE MergeLeft(_, _)
MergeLeft(rows, cod_rows) ==
    IF rows = <<>> THEN <<>>
    ELSE MergeUma(Head(rows), cod_rows) \o MergeLeft(Tail(rows), cod_rows)

\* df_final = pd.merge(df_base, df_codigo..., on='prefixo', how='left'),
\* and in v0414 the warning about rows without a code
CdMerge ==
    /\ cd_pc = "merge"
    /\ UNCHANGED foraCd
    /\ IF ColunasDoMerge(cd_version) \subseteq df_codigo.columns
       THEN LET rows == MergeLeft(df_base.rows, df_codigo.rows)
            IN  /\ df_final' = [kind |-> "df", rows |-> rows]
                /\ mensagens' =
                     IF /\ cd_version = "v0414"
                        /\ \E i \in DOMAIN rows :
                              rows[i].CLIENTE = "NaN" \/ rows[i].OPERACAO = "NaN"
                     THEN Append(mensagens, "Alguns registros não têm correspondência")
                     ELSE mensagens
                /\ cd_pc' = "permanencia"
                /\ UNCHANGED <<retorno, excecao, cd_falha>>
       ELSE /\ Lancar("KeyError", <<>>)
            /\ UNCHANGED df_final
    /\ UNCHANGED <<cd_version, arquivos, df_base, df_codigo, df_medias,
                   vc_chamada, vd_chamada>>

\* Mutant of ComPermanencia: the wait is left out of the sum
ComPermanencia_Mut(r) ==
    [status |-> r.status, tpatend |-> r.tpatend, tpesper |-> r.tpesper,
     prefixo |-> r.prefixo, CLIENTE |-> r.CLIENTE, OPERACAO |-> r.OPERACAO,
     tempo_permanencia |-> r.tpatend]

\* df_final['tempo_permanencia'] = df_final['tpatend'] + df_final['tpesper']
ComPermanencia(r) ==
    [status |-> r.status, tpatend |-> r.tpatend, tpesper |-> r.tpesper,
     prefixo |-> r.prefixo, CLIENTE |-> r.CLIENTE, OPERACAO |-> r.OPERACAO,
     tempo_permanencia |-> r.tpatend + r.tpesper]

\* The dict carregar_dados returns
Resultado(final, medias, codigo) ==
    [kind |-> "dict", base |-> final, medias |-> medias, codigo |-> codigo]

\* tempo_permanencia, then return {'base': ..., 'medias': ..., 'codigo': ...}
CdPermanencia ==
    /\ cd_pc = "permanencia"
    /\ UNCHANGED foraCd
    /\ df_final' = [df_final EXCEPT !.rows =
                       [i \in DOMAIN df_final.rows |-> ComPermanencia(df_final.rows[i])]]
    /\ retorno' = Resultado(df_final', df_medias, df_codigo)
    /\ cd_pc' = "done"
    /\ UNCHANGED <<cd_version, arquivos, df_base, df_codigo, df_medias,
                   mensagens, excecao, cd_falha, vc_chamada, vd_chamada>>

\* carregar_dados is entered with whatever the three uploaders hold
InitCarga ==
    /\ OutrosParados("cd")
    /\ cd_version \in Versoes
    /\ arquivos \in SUBSET Arquivos
    /\ cd_pc = "upload"
    /\ df_base = NoneVal
    /\ df_codigo = NoneVal
    /\ df_medias = NoneVal
    /\ df_final = NoneVal
    /\ retorno = Pendente
    /\ mensagens = <<>>
    /\ excecao = "none"
    /\ cd_falha = "none"
    /\ vc_chamada = NoneVal
    /\ vd_chamada = NoneVal

NextCarga ==
    \/ CdUpload
    \/ CdReadBase
    \/ CdReadCodigo
    \/ CdReadMedias
    \/ CdValidarColunas
    \/ CdValidarDados
    \/ CdMerge
    \/ CdPermanencia

\* ------------------------------------------------------------------------
\* validar_dados on every table of boundary records: carregar_dados stands
\* at the validar_dados call with the standard columns
\* ------------------------------------------------------------------------
InitValidacao ==
    /\ OutrosParados("cd")
    /\ cd_version \in Versoes
    /\ arquivos = Arquivos
    /\ cd_pc = "validar_dados"
    /\ df_base \in [kind : {"df"}, columns : {ColunasPadrao},
                    rows : SeqsUpTo(RegistrosValidacao, MaxRegistros)]
    /\ df_codigo \in {t \in TabelasCodigo : Len(t.rows) = 2}
    /\ df_medias = TabelaMedias
    /\ df_final = NoneVal
    /\ retorno = Pendente
    /\ mensagens = <<>>
    /\ excecao = "none"
    /\ cd_falha = "none"
    /\ vc_chamada = NoneVal
    /\ vd_chamada = NoneVal

NextValidacao == CdValidarDados

\* ------------------------------------------------------------------------
\* validar_colunas on every header row made of CabecalhosFixos and of any
\* choice among CabecalhosPossiveis:
\* carregar_dados stands at the validar_colunas call
\* ------------------------------------------------------------------------
CabecalhosPossiveis == <<
    n_status,
    <<" ","S","T","A","T","U","S"," ">>,
    <<"S","t","a","t","u","s"," ","D","e","s","c","r","i","ç","ã","o">>,
    n_guiche,
    <<"G","U","I","C","H","E">>,
    n_usuario,
    <<"U","s","u","a","r","i","o">>,
    <<"I","n","i","c","i","o">>,
    <<"T","P","E","S","P","E","R"," ">>,
    n_prefixo,
    <<"P","r","e","f","i","x","o">>,
    n_id >>

\* Columns every header row of this specification has
CabecalhosFixos == <<n_retirada, n_fim, n_tpatend>>

\* The header row holding the columns of CabecalhosPossiveis chosen by S
Cabecalho(S) ==
    SelectSeq(CabecalhosPossiveis, LAMBDA c : c \in S) \o CabecalhosFixos

InitColunas ==
    /\ OutrosParados("cd")
    /\ cd_version \in Versoes
    /\ arquivos = Arquivos
    /\ cd_pc = "validar_colunas"
    /\ \E S \in SUBSET Range(CabecalhosPossiveis) :
          df_base = [kind |-> "df", columns |-> Cabecalho(S), rows |-> <<>>]
    /\ df_codigo \in {t \in TabelasCodigo : Len(t.rows) = 2}
    /\ df_medias = TabelaMedias
    /\ df_final = NoneVal
    /\ retorno = Pendente
    /\ mensagens = <<>>
    /\ excecao = "none"
    /\ cd_falha = "none"
    /\ vc_chamada = NoneVal
    /\ vd_chamada = NoneVal

NextColunas == CdValidarColunas

\* ========================================================================
\* Claims about the loading pipeline
\* ========================================================================

\* The rows the claim C1 says validar_dados keeps
C1_Mantido(r) ==
    /\ r.status \in {"ATENDIDO", "TRANSFERIDA"}
    /\ r.tpatend >= 60
    /\ r.tpatend <= 1800
    /\ r.tpesper <= 14400

\* `saida` is `entrada` with exactly the rows satisfying Keep, in their order
FiltradoPor(entrada, saida, Keep(_)) ==
    LET K == {i \in DOMAIN entrada : Keep(entrada[i])}
    IN  /\ Len(saida) = Cardinality(K)
        /\ \A i \in K : saida[Cardinality({k \in K : k <= i})] = entrada[i]

\* C1: whenever validar_dados returns a table, the table holds exactly the
\* input records whose status is ATENDIDO or TRANSFERIDA, whose tpatend is
\* between 60 and 1800 inclusive and whose tpesper is at most 14400: none that
\* fails a condition is kept, none that satisfies all of them is dropped.
C1_ValidarDadosFiltra ==
    (vd_chamada # NoneVal /\ vd_chamada.saida # NoneVal) =>
        FiltradoPor(vd_chamada.entrada, vd_chamada.saida.rows, C1_Mantido)

\* C1 witness: a call that kept a record on both inclusive boundaries
\* (tpatend 1800, tpesper 14400) and dropped another one
C1_Witness ==
    /\ vd_chamada # NoneVal
    /\ vd_chamada.saida # NoneVal
    /\ Len(vd_chamada.entrada) = 2
    /\ Len(vd_chamada.saida.rows) = 1
    /\ vd_chamada.saida.rows[1].tpatend = 1800
    /\ vd_chamada.saida.rows[1].tpesper = 14400

MensagensDeErro ==
    {"Erro ao carregar base", "Erro ao carregar códigos", "Erro ao carregar médias",
     "Erro no carregamento", "Erro ao carregar arquivos",
     "Erro na validação dos dados"}

\* C5: carregar_dados never lets an exception escape; with fewer than three
\* files uploaded it returns None; and whenever a read, validar_colunas,
\* validar_dados or the merge fails, it has shown an error message and it
\* returns None.
C5_NenhumaExcecaoEscapa ==
    /\ excecao = "none"
    /\ (cd_pc = "done" /\ arquivos # Arquivos) => retorno = NoneVal
    /\ cd_falha # "none" =>
          /\ cd_pc = "done"
          /\ retorno = NoneVal
          /\ \E i \in DOMAIN mensagens : mensagens[i] \in MensagensDeErro

\* C5 witness: validar_colunas raised ValueError and carregar_dados returned None
C5_Witness ==
    /\ cd_falha = "validar_colunas"
    /\ vc_chamada.saida.raised = "ValueError"
    /\ retorno = NoneVal
    /\ cd_pc = "done"

\* C6: whenever carregar_dados returns a result, the result has the keys base,
\* medias and codigo, every record of base passes the validar_dados filter
\* and its tempo_permanencia is its tpatend plus its tpesper.
C6_ResultadoValido ==
    (retorno # NoneVal /\ retorno # Pendente) =>
        /\ DOMAIN retorno = {"kind", "base", "medias", "codigo"}
        /\ \A i \in DOMAIN retorno.base.rows :
              LET r == retorno.base.rows[i]
              IN  /\ C1_Mantido(r)
                  /\ r.tempo_permanencia = r.tpatend + r.tpesper

\* C6 witness: a result with a record in base, from a table that lost a record
\* to the filter
C6_Witness ==
    /\ retorno # NoneVal
    /\ retorno # Pendente
    /\ Len(retorno.base.rows) >= 1
    /\ Len(vd_chamada.entrada) > Len(vd_chamada.saida.rows)

\* The name validar_colunas gives to a column labelled c: the value of the
\* first key of mapa_colunas equal to c lower-cased and stripped, else c
C7_Padronizado(c) ==
    LET c_lower == Strip(Lower(c))
        hits == {k \in DOMAIN mapa_colunas : ChavesLower[k] = c_lower}
    IN  IF hits = {} THEN c
        ELSE mapa_colunas[CHOOSE h \in hits : \A o \in hits : h <= o][2]

C7_Obrigatorias ==
    {n_status, n_guiche, n_usuario, n_retirada, n_inicio, n_fim,
     n_tpatend, n_tpesper, n_prefixo}

\* C7: validar_colunas raises ValueError exactly when, after renaming, one of
\* the nine mandatory columns is absent; otherwise it returns the renamed
\* table and raises nothing.
C7_ValueErrorSeFaltaColuna ==
    vc_chamada # NoneVal =>
        LET entrada == vc_chamada.entrada
            saida == vc_chamada.saida
            renomeadas == [i \in DOMAIN entrada |-> C7_Padronizado(entrada[i])]
        IN  /\ saida.raised \in {"ValueError", "none"}
            /\ saida.raised = "ValueError" <=>
                  (\E m \in C7_Obrigatorias : m \notin Range(renomeadas))
            /\ saida.raised = "none" => saida.columns = renomeadas

\* C7 witness: a header row whose mandatory columns are all present only
\* after renaming (upper case, surrounding blanks) is accepted
C7_Witness ==
    /\ vc_chamada # NoneVal
    /\ vc_chamada.saida.raised = "none"
    /\ n_status \notin Range(vc_chamada.entrada)
    /\ n_tpesper \notin Range(vc_chamada.entrada)
    /\ cd_pc = "validar_dados"

\* ------------------------------------------------------------------------
\* criar_dashboard (visualizacao/gerar_dashboard)
\* ------------------------------------------------------------------------
VersoesPainel == {"v0413", "v0414"}

TiposDashboard ==
    {"Performance Cliente/Operação", "Desenvolvimento de Pessoas", "Outro"}

\* One `with tabs[i]:` block: the tab it draws in, the module whose
\* mostrar_aba it calls ("nenhum": the block only shows st.info) and the
\* name its except clause puts in "Erro na aba ..."
Bloco(i, modulo, erro) == [container |-> i, modulo |-> modulo, erro |-> erro]

\* The labels given to st.tabs
Rotulos(v, tipo) ==
    IF tipo = "Performance Cliente/Operação"
    THEN IF v = "v0414"
         THEN <<"Visão Geral", "Movimentação por Cliente", "Movimentação por Operação",
                "Tempo de Atendimento", "Tempo de Espera em Fila", "Permanência",
                "Turnos", "Chegada em Comboio I", "Chegada em Comboio II">>
         ELSE <<"Visão Geral", "Movimentação por Cliente", "Movimentação por Operação",
                "Tempo de Atendimento", "Permanência", "Turnos",
                "Chegada em Comboio I", "Chegada em Comboio II">>
    ELSE IF tipo = "Desenvolvimento de Pessoas"
    THEN IF v = "v0414"
         THEN <<"Visão Geral", "Tempo de Atendimento", "Ranking de Desempenho",
                "Evolução Individual">>
         ELSE <<"Tempo de Atendimento">>
    ELSE <<>>

\* The `with tabs[i]:` blocks of criar_dashboard, in program order
Blocos(v, tipo) ==
    IF tipo = "Performance Cliente/Operação"
    THEN IF v = "v0414"
         THEN <<Bloco(1, "geral", "Visão Geral"),
                Bloco(2, "mov_cliente", "Movimentação por Cliente"),
                Bloco(3, "mov_operacao", "Movimentação por Operação"),
                Bloco(4, "tempo_atend", "Tempo de Atendimento"),
                Bloco(5, "espera", "Tempo de Espera em Fila"),
                Bloco(6, "permanencia", "Permanência"),
                Bloco(7, "turnos", "Turnos"),
                Bloco(8, "comboio_i", "Chegada em Comboio I"),
                Bloco(9, "comboio_ii", "Chegada em Comboio II")>>
         ELSE <<Bloco(1, "geral", "Visão Geral"),
                Bloco(2, "mov_cliente", "Movimentação por Cliente"),
                Bloco(3, "mov_operacao", "Movimentação por Operação"),
                Bloco(4, "tempo_atend", "Tempo de Atendimento"),
                Bloco(5, "permanencia", "Permanência"),
                Bloco(6, "turnos", "Turnos"),
                Bloco(7, "comboio_i", "Chegada em Comboio I"),
                Bloco(8, "comboio_ii", "Chegada em Comboio II")>>
    ELSE IF tipo = "Desenvolvimento de Pessoas"
    THEN IF v = "v0414"
         THEN <<Bloco(1, "geral_pessoas", "Visão Geral"),
                Bloco(2, "dev_tempo_atend", "Tempo de Atendimento"),
                Bloco(3, "nenhum", "Ranking de Desempenho"),
                Bloco(4, "nenhum", "Evolução Individual")>>
         ELSE <<Bloco(1, "dev_tempo_atend", "Desenvolvimento de Pessoas")>>
    ELSE <<>>

\* Positions inside criar_dashboard
Entrada == [fase |-> "entrada"]
NoBloco(k) == [fase |-> "bloco", k |-> k]
Fim == [fase |-> "done"]

\* Mutant of DadosAusentes: the notice only when both arguments are None
DadosAusentes_Mut(d, f) == d = "None" /\ f = "None"

\* if dados is None or filtros is None
DadosAusentes(d, f) == d = "None" \/ f = "None"

\* Mutant of AposBloco: an exception in a tab ends the dashboard, as if the
\* only try were the outer one
AposBloco_Mut(k, n, levantou) ==
    IF levantou \/ k = n THEN Fim ELSE NoBloco(k + 1)

\* Where control goes after the k-th of n blocks: each block has its own
\* try/except, so the next block runs whether mostrar_aba raised or not
AposBloco(k, n, levantou) ==
    IF k = n THEN Fim ELSE NoBloco(k + 1)

\* The entry of criar_dashboard: the notice and return, or the branch on
\* tipo_dashboard (no branch for any other type)
GdEntrada ==
    /\ gd_pc = Entrada
    /\ UNCHANGED foraGd
    /\ IF DadosAusentes(dados, filtros)
       THEN /\ avisos' = Append(avisos, [container |-> 0, texto |-> "Carregue os dados"])
            /\ gd_pc' = Fim
       ELSE /\ avisos' = avisos
            /\ gd_pc' = IF Blocos(gd_version, tipo_dashboard) = <<>>
                        THEN Fim ELSE NoBloco(1)
    /\ UNCHANGED <<gd_version, dados, filtros, tipo_dashboard, invocadas,
                   levantaram, relatos>>

\* A block whose module's mostrar_aba returns
GdAbaRetorna ==
    /\ gd_pc.fase = "bloco"
    /\ UNCHANGED foraGd
    /\ LET b == Blocos(gd_version, tipo_dashboard)[gd_pc.k]
       IN  /\ b.modulo # "nenhum"
           /\ invocadas' = Append(invocadas, b.modulo)
           /\ gd_pc' = AposBloco(gd_pc.k, Len(Blocos(gd_version, tipo_dashboard)), FALSE)
    /\ UNCHANGED <<gd_version, dados, filtros, tipo_dashboard, levantaram,
                   relatos, avisos>>

\* A block whose module's mostrar_aba raises: the block's except clause
\* shows st.error inside the block's tab
GdAbaLevanta ==
    /\ gd_pc.fase = "bloco"
    /\ UNCHANGED foraGd
    /\ LET b == Blocos(gd_version, tipo_dashboard)[gd_pc.k]
       IN  /\ b.modulo # "nenhum"
           /\ invocadas' = Append(invocadas, b.modulo)
           /\ levantaram' = levantaram \cup {gd_pc.k}
           /\ relatos' = Append(relatos, [container |-> b.container,
                                          texto |-> b.erro])
           /\ gd_pc' = AposBloco(gd_pc.k, Len(Blocos(gd_version, tipo_dashboard)), TRUE)
    /\ UNCHANGED <<gd_version, dados, filtros, tipo_dashboard, avisos>>

\* A block that only shows st.info("Em desenvolvimento")
GdAbaEmDesenvolvimento ==
    /\ gd_pc.fase = "bloco"
    /\ UNCHANGED foraGd
    /\ LET b == Blocos(gd_version, tipo_dashboard)[gd_pc.k]
       IN  /\ b.modulo = "nenhum"
           /\ avisos' = Append(avisos, [container |-> b.container,
                                        texto |-> "Em desenvolvimento"])
           /\ gd_pc' = AposBloco(gd_pc.k, Len(Blocos(gd_version, tipo_dashboard)), FALSE)
    /\ UNCHANGED <<gd_version, dados, filtros, tipo_dashboard, invocadas,
                   levantaram, relatos>>

InitPainel ==
    /\ OutrosParados("gd")
    /\ gd_version \in VersoesPainel
    /\ dados \in {"None", "dados"}
    /\ filtros \in {"None", "filtros"}
    /\ tipo_dashboard \in TiposDashboard
    /\ gd_pc = Entrada
    /\ invocadas = <<>>
    /\ levantaram = {}
    /\ relatos = <<>>
    /\ avisos = <<>>

NextPainel ==
    \/ GdEntrada
    \/ GdAbaRetorna
    \/ GdAbaLevanta
    \/ GdAbaEmDesenvolvimento

\* ========================================================================
\* Claims about criar_dashboard
\* ========================================================================

\* The modules of the first k blocks, in order
C8_Modulos(blocos, k) ==
    LET com == SelectSeq(SubSeq(blocos, 1, k), LAMBDA b : b.modulo # "nenhum")
    IN  [i \in DOMAIN com |-> com[i].modulo]

\* The blocks a run at position pc has gone through
C8_Feitos(pc, n) == IF pc = Fim THEN n ELSE pc.k - 1

\* C8: for either dashboard type the tab modules' mostrar_aba are invoked
\* once each, in the order the tabs are declared; a tab that raises is
\* reported in its own tab and every later tab is still invoked, so that a
\* finished run has invoked every module whichever tabs raised.
C8_TodasAsAbasInvocadas ==
    (gd_pc \notin {Parado, Entrada} /\ dados # "None" /\ filtros # "None") =>
        LET blocos == Blocos(gd_version, tipo_dashboard)
            k == C8_Feitos(gd_pc, Len(blocos))
        IN  /\ invocadas = C8_Modulos(blocos, k)
            /\ \A i, j \in DOMAIN invocadas : i # j => invocadas[i] # invocadas[j]
            /\ \A i \in DOMAIN blocos : blocos[i].container = i
            /\ Len(blocos) = Len(Rotulos(gd_version, tipo_dashboard))
            /\ {relatos[i].container : i \in DOMAIN relatos} = levantaram
            /\ Len(relatos) = Cardinality(levantaram)

\* C8 as stated: a finished run has invoked one mostrar_aba for every tab of
\* the dashboard, none twice, and reported exactly the tabs that raised.
C8_Original ==
    (gd_pc = Fim /\ dados # "None" /\ filtros # "None") =>
        /\ Len(invocadas) = Len(Rotulos(gd_version, tipo_dashboard))
        /\ \A i, j \in DOMAIN invocadas : i # j => invocadas[i] # invocadas[j]
        /\ {relatos[i].container : i \in DOMAIN relatos} = levantaram

\* C8 witness: a finished Performance dashboard in which the first and a
\* middle tab raised and the last tab was still invoked
C8_Witness ==
    /\ gd_pc = Fim
    /\ tipo_dashboard = "Performance Cliente/Operação"
    /\ levantaram = {1, 4}
    /\ Len(invocadas) = Len(Rotulos(gd_version, tipo_dashboard))
    /\ invocadas[Len(invocadas)] = "comboio_ii"

\* C9: with dados or filtros None, criar_dashboard shows only the notice and
\* invokes no tab, whatever the type; with a type other than the two known
\* ones it invokes no tab and reports no error.
C9_SemDadosNadaInvocado ==
    /\ ((dados = "None" \/ filtros = "None") /\ gd_pc = Fim) =>
          /\ invocadas = <<>>
          /\ relatos = <<>>
          /\ avisos = <<[container |-> 0, texto |-> "Carregue os dados"]>>
    /\ (tipo_dashboard = "Outro" /\ gd_pc = Fim) =>
          /\ invocadas = <<>>
          /\ relatos = <<>>

\* C9 witness: a finished call with dados present and filtros None, for a
\* known dashboard type
C9_Witness ==
    /\ gd_pc = Fim
    /\ dados = "dados"
    /\ filtros = "None"
    /\ tipo_dashboard = "Performance Cliente/Operação"

\* ------------------------------------------------------------------------
\* Turno: the shift of a ticket, from the hour of its withdrawal
\* ------------------------------------------------------------------------
HorasDoDia == 0..23

\* pd.Timestamp values a ticket's retirada can hold
Timestamps == [kind : {"Timestamp"}, data : {1, 2}, hour : HorasDoDia,
               minute : {0, 59}]

\* Mutant of determinar_turno: the end of TURNO A taken as inclusive
determinar_turno_Mut(hora) ==
    LET h == IF hora.kind = "Timestamp" THEN hora.hour ELSE hora.valor
    IN  IF 7 <= h /\ h <= 15 THEN "TURNO A"
        ELSE IF 15 <= h /\ h < 23 THEN "TURNO B"
        ELSE "TURNO C"

\* determinar_turno(hora) of espera: a Timestamp argument is replaced by its
\* hour, then the hour is bucketed
determinar_turno(hora) ==
    LET h == IF hora.kind = "Timestamp" THEN hora.hour ELSE hora.valor
    IN  IF 7 <= h /\ h < 15 THEN "TURNO A"
        ELSE IF 15 <= h /\ h < 23 THEN "TURNO B"
        ELSE "TURNO C"

\* get_turno(hour) nested in calcular_movimentacao_por_periodo (mov_operacao)
get_turno_mov_operacao(hour) ==
    IF 7 <= hour /\ hour < 15 THEN "TURNO A"
    ELSE IF 15 <= hour /\ hour < 23 THEN "TURNO B"
    ELSE "TURNO C"

\* get_turno(hour) nested in calcular_ociosidade_por_periodo (ociosidade)
get_turno_ociosidade(hour) ==
    IF 7 <= hour /\ hour < 15 THEN "TURNO A"
    ELSE IF 15 <= hour /\ hour < 23 THEN "TURNO B"
    ELSE "TURNO C"

\* df_filtrado['TURNO'] = df_filtrado['retirada'].apply(determinar_turno)
TnEspera ==
    /\ tn_retirada # NoneVal
    /\ tn_espera = "none"
    /\ UNCHANGED foraTn
    /\ tn_espera' = determinar_turno(tn_retirada)
    /\ UNCHANGED <<tn_retirada, tn_mov, tn_ocio, tn_inicio, tn_colab>>

\* df_filtrado['retirada'].dt.hour.apply(get_turno) in mov_operacao
TnMovOperacao ==
    /\ tn_retirada # NoneVal
    /\ tn_mov = "none"
    /\ UNCHANGED foraTn
    /\ tn_mov' = get_turno_mov_operacao(tn_retirada.hour)
    /\ UNCHANGED <<tn_retirada, tn_espera, tn_ocio, tn_inicio, tn_colab>>

\* df_filtrado['retirada'].dt.hour.apply(get_turno) in ociosidade
TnOciosidade ==
    /\ tn_retirada # NoneVal
    /\ tn_ocio = "none"
    /\ UNCHANGED foraTn
    /\ tn_ocio' = get_turno_ociosidade(tn_retirada.hour)
    /\ UNCHANGED <<tn_retirada, tn_espera, tn_mov, tn_inicio, tn_colab>>

\* The lambda analisar_colaborador maps over df['inicio'].dt.hour
turno_analisar_colaborador(x) ==
    IF 6 <= x /\ x < 14 THEN "TURNO A"
    ELSE IF 14 <= x /\ x < 22 THEN "TURNO B"
    ELSE "TURNO C"

\* df['turno'] = df['inicio'].dt.hour.map(lambda ...) in analisar_colaborador,
\* run when a shift is selected in its additional filters
TnColaborador ==
    /\ tn_inicio # NoneVal
    /\ tn_colab = "none"
    /\ UNCHANGED foraTn
    /\ tn_colab' = turno_analisar_colaborador(tn_inicio.hour)
    /\ UNCHANGED <<tn_retirada, tn_espera, tn_mov, tn_ocio, tn_inicio>>

\* The inicio of a ticket withdrawn at t: the same day, not before t
InicioApos(t) ==
    {i \in Timestamps :
        /\ i.data = t.data
        /\ \/ i.hour > t.hour
           \/ i.hour = t.hour /\ i.minute >= t.minute}

InitTurno ==
    /\ OutrosParados("tn")
    /\ tn_retirada \in Timestamps
    /\ tn_espera = "none"
    /\ tn_mov = "none"
    /\ tn_ocio = "none"
    /\ tn_inicio \in InicioApos(tn_retirada)
    /\ tn_colab = "none"

NextTurno ==
    \/ TnEspera
    \/ TnMovOperacao
    \/ TnOciosidade
    \/ TnColaborador

\* ========================================================================
\* Claims about the shift
\* ========================================================================

\* The shift the claim C3 gives to an hour of the day
C3_Turno(h) ==
    CASE h \in 7..14 -> "TURNO A"
      [] h \in 15..22 -> "TURNO B"
      [] h \in {23} \cup (0..6) -> "TURNO C"

\* C3: determinar_turno and both get_turno give every hour 0..23 exactly one
\* shift: 7 to 14 TURNO A, 15 to 22 TURNO B, 23 and 0 to 6 TURNO C.
C3_TurnoPorHora ==
    tn_retirada # NoneVal =>
        /\ tn_retirada.hour \in 0..23
        /\ tn_espera # "none" => tn_espera = C3_Turno(tn_retirada.hour)
        /\ tn_mov # "none" => tn_mov = C3_Turno(tn_retirada.hour)
        /\ tn_ocio # "none" => tn_ocio = C3_Turno(tn_retirada.hour)

\* C3 witness: the three functions applied to a withdrawal at 23:59, the
\* first hour of TURNO C
C3_Witness ==
    /\ tn_retirada # NoneVal
    /\ tn_retirada.hour = 23
    /\ tn_retirada.minute = 59
    /\ tn_espera = "TURNO C"
    /\ tn_mov = "TURNO C"
    /\ tn_ocio = "TURNO C"

\* The shift the claim C18 gives to a ticket: by the hour of its withdrawal,
\* A from 7, B from 15, C from 23
C18_Turno(retirada) ==
    IF retirada.hour \in 7..14 THEN "TURNO A"
    ELSE IF retirada.hour \in 15..22 THEN "TURNO B"
    ELSE "TURNO C"

\* C18: every dashboard that filters by shift assigns the same shift to the
\* same ticket: the shift of analisar_colaborador is the shift of the hour
\* of the withdrawal with the boundaries 7, 15 and 23, the one
\* determinar_turno and get_turno give the ticket.
C18_Original ==
    (tn_retirada # NoneVal /\ tn_colab # "none") =>
        /\ tn_colab = C18_Turno(tn_retirada)
        /\ tn_espera # "none" => tn_colab = tn_espera
        /\ tn_mov # "none" => tn_colab = tn_mov
        /\ tn_ocio # "none" => tn_colab = tn_ocio

\* C18 witness: a ticket withdrawn at 06:00 and served at 06:59, TURNO C for
\* determinar_turno and get_turno, TURNO A for analisar_colaborador
C18_Witness ==
    /\ tn_retirada # NoneVal
    /\ tn_retirada.hour = 6
    /\ tn_inicio.hour = 6
    /\ tn_espera = "TURNO C"
    /\ tn_mov = "TURNO C"
    /\ tn_ocio = "TURNO C"
    /\ tn_colab = "TURNO A"

\* C18 with the service starting in the hour of the withdrawal: the two
\* derivations differ by the boundaries alone, on the hours 6, 14 and 22
C18_SoNosLimites ==
    (/\ tn_retirada # NoneVal
     /\ tn_colab # "none"
     /\ tn_inicio.hour = tn_retirada.hour
     /\ tn_retirada.hour \notin {6, 14, 22})
        => tn_colab = C18_Turno(tn_retirada)

\* ------------------------------------------------------------------------
\* calcular_ociosidade_por_periodo (desenvolvimento_pessoas/ociosidade)
\* ------------------------------------------------------------------------
LIMITE_INTERVALO == 7200

\* A service of the base: inicio and fim in seconds on one time axis
Atendimento(u, d, h, c, o, i, f) ==
    [usuario |-> u, data |-> d, hora |-> h, CLIENTE |-> c, OPERACAO |-> o,
     inicio |-> i, fim |-> f]

\* The services a base of this specification is drawn from: the four time
\* slots give gaps of 0 (first to second), 200, 400, 7200, 7500 and 7700
\* seconds, and a repeated slot gives an overlap
AtendimentosPossiveis ==
    UNION { { Atendimento(g[1], g[2], 8, "C1", "O1", 0, 100),
              Atendimento(g[1], g[2], 8, "C1", "O2", 100, 300),
              Atendimento(g[1], g[2], 16, "C2", "O1", 500, 600),
              Atendimento(g[1], g[2], 23, "C1", "O1", 7800, 7900) }
            : g \in {<<"u1", 1>>, <<"u1", 2>>, <<"u2", 1>>} }

FiltroOcio(ini, fim, de, colab, cli, op, tu) ==
    [periodo1 |-> [inicio |-> ini, fim |-> fim],
     periodo2 |-> [inicio |-> 2, fim |-> 2], data_especifica |-> de,
     colaborador |-> colab, cliente |-> cli, operacao |-> op, turno |-> tu]

\* The filtros the function is called with (0: no data_especifica)
FiltrosOcio ==
    { FiltroOcio(1, 2, 0, "Todos", {"Todos"}, {"Todas"}, {"Todos"}),
      FiltroOcio(1, 1, 0, "u1", {"Todos"}, {"Todas"}, {"Todos"}),
      FiltroOcio(1, 2, 2, "Todos", {"C1"}, {"Todas"}, {"Todos"}),
      FiltroOcio(1, 2, 0, "Todos", {"Todos"}, {"O1"}, {"TURNO A", "TURNO B"}) }

\* The date mask and the collaborator, client, operation and shift filters
PassaFiltrosOcio(r, f, periodo) ==
    /\ r.data >= f[periodo].inicio
    /\ r.data <= f[periodo].fim
    /\ f.data_especifica # 0 => r.data = f.data_especifica
    /\ f.colaborador # "Todos" => r.usuario = f.colaborador
    /\ f.cliente # {"Todos"} => r.CLIENTE \in f.cliente
    /\ f.operacao # {"Todas"} => r.OPERACAO \in f.operacao
    /\ f.turno # {"Todos"} => get_turno_ociosidade(r.hora) \in f.turno

FiltrarOcio(df, f, periodo) ==
    SelectSeq(df, LAMBDA r : PassaFiltrosOcio(r, f, periodo))

\* Series.unique(): the values in order of first appearance
RECURSIVE Unique(_)
Unique(s) ==
    IF s = <<>> THEN <<>>
    ELSE LET antes == Unique(SubSeq(s, 1, Len(s) - 1))
         IN  IF s[Len(s)] \in Range(antes) THEN antes
             ELSE Append(antes, s[Len(s)])

\* sort_values('inicio'): ascending, rows with equal inicio keep their order
RECURSIVE InserirPorInicio(_, _)
InserirPorInicio(ordenados, r) ==
    IF ordenados = <<>> THEN <<r>>
    ELSE IF ordenados[Len(ordenados)].inicio <= r.inicio THEN Append(ordenados, r)
    ELSE Append(InserirPorInicio(SubSeq(ordenados, 1, Len(ordenados) - 1), r),
                ordenados[Len(ordenados)])

RECURSIVE SortPorInicio(_)
SortPorInicio(s) ==
    IF s = <<>> THEN <<>>
    ELSE InserirPorInicio(SortPorInicio(SubSeq(s, 1, Len(s) - 1)), s[Len(s)])

\* if 0 < intervalo <= 7200
IntervaloConta(intervalo) == 0 < intervalo /\ intervalo <= LIMITE_INTERVALO

\* The loop over consecutive services of one day: the gaps that are kept
RECURSIVE Intervalos(_, _)
Intervalos(atend_dia, i) ==
    IF i >= Len(atend_dia) THEN <<>>
    ELSE LET intervalo == atend_dia[i + 1].inicio - atend_dia[i].fim
         IN  (IF IntervaloConta(intervalo) THEN <<intervalo>> ELSE <<>>)
             \o Intervalos(atend_dia, i + 1)

MaxDe(s) == CHOOSE m \in Range(s) : \A x \in Range(s) : x <= m

\* list.remove(x): the first occurrence goes
RemoverPrimeiro(s, x) ==
    LET k == CHOOSE i \in DOMAIN s : s[i] = x /\ \A j \in 1..(i - 1) : s[j] # x
    IN  SubSeq(s, 1, k - 1) \o SubSeq(s, k + 1, Len(s))

\* Mutant of RemoverMaior: the largest gap goes even when it is the only one
RemoverMaior_Mut(intervalos) == RemoverPrimeiro(intervalos, MaxDe(intervalos))

\* if len(intervalos) > 1: intervalos.remove(max(intervalos))
RemoverMaior(intervalos) ==
    IF Len(intervalos) > 1
    THEN RemoverPrimeiro(intervalos, MaxDe(intervalos))
    ELSE intervalos

\* The entry appended to `ociosidade` for one collaborator and day, if any
OciosidadeDoDia(df_filtrado, usuario, data) ==
    LET atend_dia == SortPorInicio(
            SelectSeq(df_filtrado, LAMBDA r : r.usuario = usuario /\ r.data = data))
        intervalos == Intervalos(atend_dia, 1)
    IN  IF intervalos # <<>>
        THEN LET restantes == RemoverMaior(intervalos)
             IN  <<[colaborador |-> usuario, data |-> data,
                    tempo_ocioso |-> SumSeq(restantes),
                    qtd_intervalos |-> Len(restantes)]>>
        ELSE <<>>

RECURSIVE OciosidadeDosDias(_, _, _)
OciosidadeDosDias(df_filtrado, usuario, datas) ==
    IF datas = <<>> THEN <<>>
    ELSE OciosidadeDoDia(df_filtrado, usuario, Head(datas))
         \o OciosidadeDosDias(df_filtrado, usuario, Tail(datas))

\* The two nested loops that fill the list `ociosidade`
RECURSIVE OciosidadeLista(_, _)
OciosidadeLista(df_filtrado, usuarios) ==
    IF usuarios = <<>> THEN <<>>
    ELSE LET u == Head(usuarios)
             do_usuario == SelectSeq(df_filtrado, LAMBDA r : r.usuario = u)
             datas == Unique([i \in DOMAIN do_usuario |-> do_usuario[i].data])
         IN  OciosidadeDosDias(df_filtrado, u, datas)
             \o OciosidadeLista(df_filtrado, Tail(usuarios))

\* Mutant of MediaPorColaborador: the daily values summed, not averaged
MediaPorColaborador_Mut(lista) ==
    { [colaborador |-> c,
       soma |-> SumSeq([i \in DOMAIN SelectSeq(lista, LAMBDA e : e.colaborador = c)
                          |-> SelectSeq(lista, LAMBDA e : e.colaborador = c)[i].tempo_ocioso]),
       dias |-> 1]
      : c \in {lista[i].colaborador : i \in DOMAIN lista} }

\* groupby('colaborador')['tempo_ocioso'].mean(): per collaborator the sum
\* of the daily values and the number of days (the mean is soma / dias)
MediaPorColaborador(lista) ==
    { [colaborador |-> c,
       soma |-> SumSeq([i \in DOMAIN SelectSeq(lista, LAMBDA e : e.colaborador = c)
                          |-> SelectSeq(lista, LAMBDA e : e.colaborador = c)[i].tempo_ocioso]),
       dias |-> Len(SelectSeq(lista, LAMBDA e : e.colaborador = c))]
      : c \in {lista[i].colaborador : i \in DOMAIN lista} }

\* calcular_ociosidade_por_periodo(dados, filtros, periodo)
OcCalcular ==
    /\ oc_pc = "chamada"
    /\ UNCHANGED foraOc
    /\ \E f \in FiltrosOcio, periodo \in {"periodo1", "periodo2"} :
         /\ oc_filtros' = f
         /\ oc_periodo' = periodo
         /\ IF oc_base = <<>>
            THEN /\ oc_avisos' = Append(oc_avisos, "Base de dados está vazia")
                 /\ oc_filtrado' = <<>>
                 /\ oc_lista' = <<>>
                 /\ oc_resultado' = {}
            ELSE LET df_filtrado == FiltrarOcio(oc_base, f, periodo)
                     usuarios == Unique([i \in DOMAIN df_filtrado |->
                                            df_filtrado[i].usuario])
                     lista == OciosidadeLista(df_filtrado, usuarios)
                 IN  /\ oc_avisos' = oc_avisos
                     /\ oc_filtrado' = df_filtrado
                     /\ oc_lista' = lista
                     /\ oc_resultado' = MediaPorColaborador(lista)
    /\ oc_pc' = "done"
    /\ UNCHANGED oc_base

InitOcio ==
    /\ OutrosParados("oc")
    /\ oc_base \in SeqsUpTo(AtendimentosPossiveis, MaxAtendimentos)
    /\ oc_filtros = NoneVal
    /\ oc_periodo = "none"
    /\ oc_pc = "chamada"
    /\ oc_filtrado = <<>>
    /\ oc_lista = <<>>
    /\ oc_resultado = {}
    /\ oc_avisos = <<>>

NextOcio == OcCalcular

\* ========================================================================
\* Claims about the daily idle time
\* ========================================================================

\* The services of one collaborator and day among the filtered rows
C2_Servicos(u, d) ==
    SelectSeq(oc_filtrado, LAMBDA r : r.usuario = u /\ r.data = d)

\* The services of a day in order of start time
C2_EmOrdem(servicos) ==
    LET n == Len(servicos)
        p == CHOOSE q \in [1..n -> 1..n] :
                 /\ \A i, j \in 1..n : i # j => q[i] # q[j]
                 /\ \A i \in 1..(n - 1) :
                        servicos[q[i]].inicio <= servicos[q[i + 1]].inicio
    IN  [i \in 1..n |-> servicos[p[i]]]

\* Every gap between consecutive services: end of one to start of the next
C2_Gaps(servicos) ==
    LET o == C2_EmOrdem(servicos)
    IN  [i \in 1..(Len(servicos) - 1) |-> o[i + 1].inicio - o[i].fim]

C2_Maior(gaps) == CHOOSE m \in Range(gaps) : \A x \in Range(gaps) : x <= m

\* C2 as stated: the daily idle time is the sum of all the gaps between
\* consecutive services of the day, the single largest gap left out.
C2_Original ==
    \A k \in DOMAIN oc_lista :
        LET gaps == C2_Gaps(C2_Servicos(oc_lista[k].colaborador, oc_lista[k].data))
        IN  /\ gaps # <<>>
            /\ oc_lista[k].tempo_ocioso = SumSeq(gaps) - C2_Maior(gaps)

\* The gaps the code counts: longer than 0 and at most 7200 seconds
C2_Contados(gaps) == SelectSeq(gaps, LAMBDA g : 0 < g /\ g <= 7200)

\* C2 (amended): a collaborator's day has a daily idle time exactly when it
\* has a gap between consecutive services that is longer than 0 and at most
\* 7200 seconds; the value is the sum of these gaps, the single largest of
\* them left out only when there are two or more.
C2_OciosidadeDiaria ==
    oc_pc = "done" =>
        /\ \A k \in DOMAIN oc_lista :
             LET contados == C2_Contados(
                     C2_Gaps(C2_Servicos(oc_lista[k].colaborador, oc_lista[k].data)))
             IN  /\ contados # <<>>
                 /\ oc_lista[k].tempo_ocioso =
                        IF Len(contados) >= 2
                        THEN SumSeq(contados) - C2_Maior(contados)
                        ELSE SumSeq(contados)
        /\ \A i \in DOMAIN oc_filtrado :
             LET u == oc_filtrado[i].usuario
                 d == oc_filtrado[i].data
             IN  C2_Contados(C2_Gaps(C2_Servicos(u, d))) # <<>>
                 => \E k \in DOMAIN oc_lista :
                        oc_lista[k].colaborador = u /\ oc_lista[k].data = d
        /\ \A k, l \in DOMAIN oc_lista :
             (oc_lista[k].colaborador = oc_lista[l].colaborador
              /\ oc_lista[k].data = oc_lista[l].data) => k = l

\* C2 witness: a day with counted gaps of 400 and 7200 seconds, of which the
\* largest is left out
C2_Witness ==
    /\ oc_pc = "done"
    /\ \E k \in DOMAIN oc_lista :
         /\ C2_Contados(C2_Gaps(C2_Servicos(oc_lista[k].colaborador,
                                            oc_lista[k].data))) = <<400, 7200>>
         /\ oc_lista[k].tempo_ocioso = 400

\* ------------------------------------------------------------------------
\* The insights of mostrar_aba (operacoes_clientes/comboio_i)
\* ------------------------------------------------------------------------
JANELA_MIN == 15

\* A withdrawal: the day and the minute of the day of its retirada
Retirada(d, m) == [data |-> d, minuto |-> m]

\* The withdrawals a base of this specification is drawn from: on each of
\* two days, two in the first quarter of an hour, one in the next quarter
\* and one at 10:00
RetiradasPossiveis == {Retirada(d, m) : d \in {1, 2}, m \in {0, 14, 15, 600}}

\* The periodo2 ranges of the filters
PeriodosComboio == {[inicio |-> 1, fim |-> 2], [inicio |-> 2, fim |-> 2]}

\* df['retirada'].dt.floor('15T')
periodo_15min(r) == (r.minuto \div JANELA_MIN) * JANELA_MIN

ChaveDoGrupo(r) == [data |-> r.data, periodo |-> periodo_15min(r)]

\* The rows of one (data, periodo_15min) group, in row order
Grupo(df, chave) == SelectSeq(df, LAMBDA r : ChaveDoGrupo(r) = chave)

ChavesDosGrupos(df) == {ChaveDoGrupo(df[i]) : i \in DOMAIN df}

\* numpy's mean() and std() of the single integer that Series.count() gives
MediaDeEscalar(c) == c
DesvioDeEscalar(c) == 0

\* identificar_comboios(grupo): the count of the group against the mean and
\* the standard deviation of that same count
identificar_comboios(grupo) ==
    LET count == Len(grupo)
    IN  count > MediaDeEscalar(count) + DesvioDeEscalar(count)

\* df.groupby(['data', 'periodo_15min']).filter(identificar_comboios)
FiltrarComboios(df) ==
    SelectSeq(df, LAMBDA r : identificar_comboios(Grupo(df, ChaveDoGrupo(r))))

\* df.groupby(['data', 'periodo_15min'])['id'].count()
ContagensPorJanela(df) ==
    {[data |-> k.data, periodo |-> k.periodo, qtd |-> Len(Grupo(df, k))]
        : k \in ChavesDosGrupos(df)}

\* Series.sum() of the counts and of their squares
RECURSIVE SomaQtd(_)
SomaQtd(contagens) ==
    IF contagens = {} THEN 0
    ELSE LET g == CHOOSE x \in contagens : TRUE
         IN  g.qtd + SomaQtd(contagens \ {g})

RECURSIVE SomaQtdQuadrado(_)
SomaQtdQuadrado(contagens) ==
    IF contagens = {} THEN 0
    ELSE LET g == CHOOSE x \in contagens : TRUE
         IN  g.qtd * g.qtd + SomaQtdQuadrado(contagens \ {g})

\* x > mean + std of the counts (sample standard deviation, ddof = 1), in
\* integers: with n counts of sum s and sum of squares q,
\* x > s/n + sqrt((n*q - s*s) / (n*(n-1)))
AcimaDeMediaMaisDesvio(x, contagens) ==
    LET n == Cardinality(contagens)
        s == SomaQtd(contagens)
        q == SomaQtdQuadrado(contagens)
    IN  /\ n > 1
        /\ x * n - s > 0
        /\ (x * n - s) * (x * n - s) * (n - 1) > n * (n * q - s * s)

\* int(comboios_por_data.mean() + comboios_por_data.std())
Threshold(contagens, total) ==
    CHOOSE t \in 0..total :
        /\ ~AcimaDeMediaMaisDesvio(t, contagens)
        /\ AcimaDeMediaMaisDesvio(t + 1, contagens)

\* sort_values(ascending=False).head(3): the three largest quantities
RECURSIVE MaioresQtd(_, _)
MaioresQtd(contagens, n) ==
    IF n = 0 \/ contagens = {} THEN <<>>
    ELSE LET g == CHOOSE x \in contagens : \A y \in contagens : y.qtd <= x.qtd
         IN  <<g.qtd>> \o MaioresQtd(contagens \ {g}, n - 1)

\* Whether a step before the 'Períodos Críticos' list raises: idxmax of an
\* empty series (empty base), int() of a NaN threshold (a single group has
\* no standard deviation) or int() of the NaN mean of an empty pivot (no
\* withdrawal inside periodo2)
InsightsLevantam(df, periodo2) ==
    \/ df = <<>>
    \/ Cardinality(ChavesDosGrupos(df)) = 1
    \/ \A i \in DOMAIN df : df[i].data < periodo2.inicio \/ df[i].data > periodo2.fim

\* mostrar_aba(dados, filtros): the insights up to the list of critical
\* periods
CbInsights ==
    /\ cb_pc = "chamada"
    /\ UNCHANGED foraCb
    /\ IF InsightsLevantam(cb_base, cb_filtros)
       THEN /\ cb_erro' = TRUE
            /\ UNCHANGED <<cb_contagens, cb_comboios, cb_threshold, cb_lista,
                           cb_criticos>>
       ELSE LET comboios == FiltrarComboios(cb_base)
                comboios_por_data == ContagensPorJanela(cb_base)
            IN  /\ cb_comboios' = comboios
                /\ cb_contagens' = comboios_por_data
                /\ cb_threshold' = Threshold(comboios_por_data, Len(cb_base))
                /\ cb_lista' = (comboios # <<>>)
                /\ cb_criticos' = IF comboios # <<>>
                                  THEN MaioresQtd(comboios_por_data, 3)
                                  ELSE <<>>
                /\ cb_erro' = FALSE
    /\ cb_pc' = "done"
    /\ UNCHANGED <<cb_base, cb_filtros>>

InitComboio ==
    /\ OutrosParados("cb")
    /\ cb_base \in SeqsUpTo(RetiradasPossiveis, MaxRetiradas)
    /\ cb_filtros \in PeriodosComboio
    /\ cb_pc = "chamada"
    /\ cb_contagens = {}
    /\ cb_comboios = <<>>
    /\ cb_threshold = 0
    /\ cb_lista = FALSE
    /\ cb_criticos = <<>>
    /\ cb_erro = FALSE

NextComboio == CbInsights

\* ========================================================================
\* Claims about the comboio insights
\* ========================================================================

\* The windows whose count exceeds the mean plus one standard deviation of
\* the counts of all the (day, window) groups
C4_JanelasAcima ==
    {g \in cb_contagens : AcimaDeMediaMaisDesvio(g.qtd, cb_contagens)}

\* C4: a 15-minute window of a day is identified as a comboio exactly when
\* its number of withdrawals exceeds the mean plus one standard deviation of
\* the counts of all the (day, window) groups, and the 'Períodos Críticos
\* (15 min)' list is shown whenever such a window exists.
C4_Original ==
    (cb_pc = "done" /\ ~cb_erro) =>
        /\ \A g \in cb_contagens :
             (\E i \in DOMAIN cb_comboios :
                 ChaveDoGrupo(cb_comboios[i]) = [data |-> g.data, periodo |-> g.periodo])
             <=> g \in C4_JanelasAcima
        /\ C4_JanelasAcima # {} => cb_lista

\* C4 witness: the insights ran to the list without an error over a base in
\* which one window holds two withdrawals and two windows hold one each
C4_Witness ==
    /\ cb_pc = "done"
    /\ ~cb_erro
    /\ {g.qtd : g \in cb_contagens} = {1, 2}
    /\ Cardinality(cb_contagens) = 3
    /\ C4_JanelasAcima # {}

\* ------------------------------------------------------------------------
\* Movimentação por Cliente and por Operação (operacoes_clientes)
\* ------------------------------------------------------------------------
NaN == "NaN"

\* A ticket of the base; every row carries its id, so count() of the id
\* column of a group is the number of rows of the group.  CLIENTE and
\* OPERACAO are NaN when the merge with the code table found no prefix.
Ticket(d, h, c, o) == [data |-> d, hora |-> h, CLIENTE |-> c, OPERACAO |-> o]

TicketsPossiveis ==
    {Ticket(d, x[1], x[2], x[3]) :
        d \in {1, 2},
        x \in {<<8, "C1", "O1">>, <<16, "C1", "O2">>, <<16, "C2", "O2">>,
               <<8, NaN, NaN>>}}

\* groupby sorts its keys: the clients and the operations in that order
ClientesEmOrdem == <<"C1", "C2">>
OperacoesEmOrdem == <<"O1", "O2">>

FiltroMov(i1, f1, i2, f2, cli, tu, op) ==
    [periodo1 |-> [inicio |-> i1, fim |-> f1],
     periodo2 |-> [inicio |-> i2, fim |-> f2],
     cliente |-> cli, turno |-> tu, operacao |-> op]

\* The filtros the tabs are shown with; the last one starts periodo1 before
\* any date a base can hold
FiltrosMov ==
    { FiltroMov(1, 1, 2, 2, {"Todos"}, {"Todos"}, {"Todas"}),
      FiltroMov(1, 2, 2, 2, {"Todos"}, {"Todos"}, {"Todas"}),
      FiltroMov(1, 1, 2, 2, {"C1"}, {"Todos"}, {"Todas"}),
      FiltroMov(1, 1, 2, 2, {"Todos"}, {"TURNO B"}, {"Todas"}),
      FiltroMov(1, 1, 2, 2, {"Todos"}, {"Todos"}, {"O2"}),
      FiltroMov(0, 1, 2, 2, {"Todos"}, {"Todos"}, {"Todas"}) }

\* Mutant of NoPeriodo: the last day of the period left out
NoPeriodo_Mut(r, f, periodo) ==
    r.data >= f[periodo].inicio /\ r.data < f[periodo].fim

\* (retirada.dt.date >= inicio) & (retirada.dt.date <= fim)
NoPeriodo(r, f, periodo) ==
    r.data >= f[periodo].inicio /\ r.data <= f[periodo].fim

\* groupby(chave)['id'].count().reset_index(): one row per key that occurs,
\* keys in order, rows with a NaN key left out
GroupByCount(df, coluna, ordem) ==
    LET presentes == SelectSeq(ordem,
            LAMBDA k : \E i \in DOMAIN df : df[i][coluna] = k)
    IN  [i \in DOMAIN presentes |->
            [chave |-> presentes[i],
             quantidade |-> Len(SelectSeq(df, LAMBDA r : r[coluna] = presentes[i]))]]

\* A st.warning and a st.error call
Aviso(texto) == [nivel |-> "warning", texto |-> texto]
Erro(texto) == [nivel |-> "error", texto |-> texto]

\* The messages of one call, with the call they come from
DaChamada(msgs, origem) ==
    [i \in DOMAIN msgs |->
        [origem |-> origem, nivel |-> msgs[i].nivel, texto |-> msgs[i].texto]]

Calculo(tabela, filtrado, msgs) ==
    [tabela |-> tabela, filtrado |-> filtrado, msgs |-> msgs]

\* calcular_movimentacao_por_periodo of mov_cliente
calcular_movimentacao_cliente(df, f, periodo) ==
    LET df_filtrado == SelectSeq(df, LAMBDA r : NoPeriodo(r, f, periodo))
    IN  Calculo(GroupByCount(df_filtrado, "CLIENTE", ClientesEmOrdem),
                df_filtrado, <<>>)

MinData(df) == CHOOSE d \in {df[i].data : i \in DOMAIN df} :
                   \A i \in DOMAIN df : d <= df[i].data
MaxData(df) == CHOOSE d \in {df[i].data : i \in DOMAIN df} :
                   \A i \in DOMAIN df : d >= df[i].data

\* The client, shift and operation filters of mov_operacao
PassaFiltrosMov(r, f) ==
    /\ f.cliente # {"Todos"} => r.CLIENTE \in f.cliente
    /\ f.turno # {"Todos"} => get_turno_mov_operacao(r.hora) \in f.turno
    /\ f.operacao # {"Todas"} => r.OPERACAO \in f.operacao

\* Mutant of calcular_movimentacao_operacao: a period that reaches outside
\* the dates of the base is cut to them instead of refused
calcular_movimentacao_operacao_Mut(df, f, periodo) ==
    IF df = <<>>
    THEN Calculo(<<>>, <<>>, <<Aviso("Base de dados está vazia")>>)
    ELSE LET df_filtrado == SelectSeq(df,
                 LAMBDA r : NoPeriodo(r, f, periodo) /\ PassaFiltrosMov(r, f))
         IN  IF Len(df_filtrado) = 0
             THEN Calculo(<<>>, <<>>,
                     <<Aviso("Nenhum registro encontrado com os filtros selecionados")>>)
             ELSE Calculo(GroupByCount(df_filtrado, "OPERACAO", OperacoesEmOrdem),
                          df_filtrado, <<>>)

\* calcular_movimentacao_por_periodo of mov_operacao
calcular_movimentacao_operacao(df, f, periodo) ==
    IF df = <<>>
    THEN Calculo(<<>>, <<>>, <<Aviso("Base de dados está vazia")>>)
    ELSE IF f[periodo].inicio < MinData(df) \/ f[periodo].fim > MaxData(df)
    THEN Calculo(<<>>, <<>>,
                 <<Erro("Período selecionado fora do intervalo disponível")>>)
    ELSE LET df_filtrado == SelectSeq(df,
                 LAMBDA r : NoPeriodo(r, f, periodo) /\ PassaFiltrosMov(r, f))
         IN  IF Len(df_filtrado) = 0
             THEN Calculo(<<>>, <<>>,
                     <<Aviso("Nenhum registro encontrado com os filtros selecionados")>>)
             ELSE Calculo(GroupByCount(df_filtrado, "OPERACAO", OperacoesEmOrdem),
                          df_filtrado, <<>>)

calcular_movimentacao_por_periodo(modulo, df, f, periodo) ==
    IF modulo = "mov_cliente"
    THEN calcular_movimentacao_cliente(df, f, periodo)
    ELSE calcular_movimentacao_operacao(df, f, periodo)

\* (quantidade_p2 - quantidade_p1) / quantidade_p1 * 100 as an exact
\* fraction; a zero denominator stands for the inf or NaN of the division
Variacao(quantidade_p1, quantidade_p2) ==
    [num |-> (quantidade_p2 - quantidade_p1) * 100, den |-> quantidade_p1]

LinhaComparada(a, b) ==
    [chave |-> a.chave, quantidade_p1 |-> a.quantidade,
     quantidade_p2 |-> b.quantidade,
     total |-> a.quantidade + b.quantidade,
     variacao |-> Variacao(a.quantidade, b.quantidade)]

\* Mutant of MergeComparacao: a left merge, a key of periodo1 without partner
\* keeps its row with no quantity for periodo2
RECURSIVE MergeComparacao_Mut(_, _)
MergeComparacao_Mut(dados_p1, dados_p2) ==
    IF dados_p1 = <<>> THEN <<>>
    ELSE LET a == Head(dados_p1)
             pares == SelectSeq(dados_p2, LAMBDA b : b.chave = a.chave)
         IN  (IF pares = <<>>
              THEN <<LinhaComparada(a, [chave |-> a.chave, quantidade |-> 0])>>
              ELSE [i \in DOMAIN pares |-> LinhaComparada(a, pares[i])])
             \o MergeComparacao_Mut(Tail(dados_p1), dados_p2)

\* pd.merge(dados_p1, dados_p2, on=key, suffixes=('_p1', '_p2')): the inner
\* merge, in the order of dados_p1, with total and variacao added
RECURSIVE MergeComparacao(_, _)
MergeComparacao(dados_p1, dados_p2) ==
    IF dados_p1 = <<>> THEN <<>>
    ELSE LET a == Head(dados_p1)
             pares == SelectSeq(dados_p2, LAMBDA b : b.chave = a.chave)
         IN  [i \in DOMAIN pares |-> LinhaComparada(a, pares[i])]
             \o MergeComparacao(Tail(dados_p1), dados_p2)

\* sort_values('total', ascending=True); rows of equal total keep their order
RECURSIVE InserirPorTotal(_, _)
InserirPorTotal(ordenados, r) ==
    IF ordenados = <<>> THEN <<r>>
    ELSE IF ordenados[Len(ordenados)].total <= r.total THEN Append(ordenados, r)
    ELSE Append(InserirPorTotal(SubSeq(ordenados, 1, Len(ordenados) - 1), r),
                ordenados[Len(ordenados)])

RECURSIVE SortPorTotal(_)
SortPorTotal(s) ==
    IF s = <<>> THEN <<>>
    ELSE InserirPorTotal(SortPorTotal(SubSeq(s, 1, Len(s) - 1)), s[Len(s)])

\* criar_grafico_comparativo(dados_p1, dados_p2, filtros): df_comp as charted
criar_grafico_comparativo(dados_p1, dados_p2) ==
    SortPorTotal(MergeComparacao(dados_p1, dados_p2))

\* mov_p1 = calcular_movimentacao_por_periodo(dados, filtros, 'periodo1')
MvCalcularP1 ==
    /\ mv_pc = "periodo1"
    /\ UNCHANGED foraMv
    /\ LET c == calcular_movimentacao_por_periodo(mv_modulo, mv_base, mv_filtros,
                                                  "periodo1")
       IN  /\ mv_p1' = c.tabela
           /\ mv_filtrado' = [mv_filtrado EXCEPT !.periodo1 = c.filtrado]
           /\ mv_msgs' = mv_msgs \o DaChamada(c.msgs, "periodo1")
    /\ mv_pc' = "periodo2"
    /\ UNCHANGED <<mv_modulo, mv_base, mv_filtros, mv_p2, mv_comparou, mv_comp,
                   mv_desenhos>>

\* mov_p2 = calcular_movimentacao_por_periodo(dados, filtros, 'periodo2')
MvCalcularP2 ==
    /\ mv_pc = "periodo2"
    /\ UNCHANGED foraMv
    /\ LET c == calcular_movimentacao_por_periodo(mv_modulo, mv_base, mv_filtros,
                                                  "periodo2")
       IN  /\ mv_p2' = c.tabela
           /\ mv_filtrado' = [mv_filtrado EXCEPT !.periodo2 = c.filtrado]
           /\ mv_msgs' = mv_msgs \o DaChamada(c.msgs, "periodo2")
    /\ mv_pc' = "comparar"
    /\ UNCHANGED <<mv_modulo, mv_base, mv_filtros, mv_p1, mv_comparou, mv_comp,
                   mv_desenhos>>

\* The rest of mostrar_aba: the warning when a table is empty, else the
\* comparison
MvComparar ==
    /\ mv_pc = "comparar"
    /\ UNCHANGED foraMv
    /\ IF mv_p1 = <<>> \/ mv_p2 = <<>>
       THEN /\ mv_msgs' = mv_msgs \o DaChamada(
                   <<Aviso("Não há dados para exibir no período selecionado.")>>,
                   "mostrar_aba")
            /\ UNCHANGED <<mv_comparou, mv_comp, mv_desenhos>>
       ELSE /\ mv_comparou' = TRUE
            /\ mv_comp' = criar_grafico_comparativo(mv_p1, mv_p2)
            /\ mv_desenhos' = IF mv_modulo = "mov_operacao"
                              THEN <<"grafico", "insights">>
                              ELSE <<"grafico">>
            /\ UNCHANGED mv_msgs
    /\ mv_pc' = "done"
    /\ UNCHANGED <<mv_modulo, mv_base, mv_filtros, mv_p1, mv_p2, mv_filtrado>>

InitMov ==
    /\ OutrosParados("mv")
    /\ mv_modulo \in {"mov_cliente", "mov_operacao"}
    /\ mv_base \in SeqsUpTo(TicketsPossiveis, MaxTickets)
    /\ mv_filtros \in FiltrosMov
    /\ mv_pc = "periodo1"
    /\ mv_p1 = <<>>
    /\ mv_p2 = <<>>
    /\ mv_filtrado = [periodo1 |-> <<>>, periodo2 |-> <<>>]
    /\ mv_comparou = FALSE
    /\ mv_comp = <<>>
    /\ mv_msgs = <<>>
    /\ mv_desenhos = <<>>

NextMov ==
    \/ MvCalcularP1
    \/ MvCalcularP2
    \/ MvComparar

\* ========================================================================
\* Claims about the movement comparisons
\* ========================================================================

\* The records a key has in a period: for mov_cliente the rows of the base
\* inside the period, for mov_operacao the rows the tab selected for it
C10_Registros(chave, periodo) ==
    IF mv_modulo = "mov_cliente"
    THEN Cardinality({i \in DOMAIN mv_base :
            /\ mv_base[i].CLIENTE = chave
            /\ mv_base[i].data >= mv_filtros[periodo].inicio
            /\ mv_base[i].data <= mv_filtros[periodo].fim})
    ELSE Cardinality({i \in DOMAIN mv_filtrado[periodo] :
            mv_filtrado[periodo][i].OPERACAO = chave})

C10_Chaves ==
    IF mv_modulo = "mov_cliente" THEN {"C1", "C2"} ELSE {"O1", "O2"}

\* C10: a client or an operation appears in the comparison exactly when it
\* has at least one record in both periods, once and with the quantities of
\* the two periods; its variation is (quantidade_p2 - quantidade_p1) /
\* quantidade_p1 * 100, defined because quantidade_p1 is at least 1.
C10_ComparacaoDeMovimento ==
    (mv_pc = "done" /\ (mv_modulo = "mov_cliente" \/ mv_comparou)) =>
        /\ \A k \in C10_Chaves :
             (\E i \in DOMAIN mv_comp : mv_comp[i].chave = k)
             <=> (C10_Registros(k, "periodo1") >= 1
                  /\ C10_Registros(k, "periodo2") >= 1)
        /\ \A i \in DOMAIN mv_comp :
             LET l == mv_comp[i]
             IN  /\ l.chave \in C10_Chaves
                 /\ \A j \in DOMAIN mv_comp : mv_comp[j].chave = l.chave => j = i
                 /\ l.quantidade_p1 = C10_Registros(l.chave, "periodo1")
                 /\ l.quantidade_p2 = C10_Registros(l.chave, "periodo2")
                 /\ l.quantidade_p1 >= 1
                 /\ l.variacao.den # 0
                 /\ l.variacao.num * l.quantidade_p1
                        = (l.quantidade_p2 - l.quantidade_p1) * 100 * l.variacao.den

\* C10 witness: a comparison with one key compared (two records in periodo1,
\* one in periodo2: -50 %) while another key has records in one period only
C10_Witness ==
    /\ mv_pc = "done"
    /\ mv_comparou
    /\ Len(mv_comp) = 1
    /\ mv_comp[1].quantidade_p1 = 2
    /\ mv_comp[1].quantidade_p2 = 1
    /\ mv_comp[1].variacao = [num |-> -100, den |-> 2]
    /\ \E k \in C10_Chaves :
         /\ C10_Registros(k, "periodo1") + C10_Registros(k, "periodo2") >= 1
         /\ \A i \in DOMAIN mv_comp : mv_comp[i].chave # k

\* ========================================================================
\* Claims about calcular_movimentacao_por_periodo of mov_operacao
\* ========================================================================

\* The periods whose table has been computed
C11_Calculados ==
    CASE mv_pc = "periodo1" -> {}
      [] mv_pc = "periodo2" -> {"periodo1"}
      [] OTHER -> {"periodo1", "periodo2"}

C11_Tabela(periodo) == IF periodo = "periodo1" THEN mv_p1 ELSE mv_p2

\* The call reached the filters: the base has rows and the period lies
\* inside the dates of the base
C11_ChegaAosFiltros(periodo) ==
    /\ mv_base # <<>>
    /\ \E i \in DOMAIN mv_base : mv_base[i].data <= mv_filtros[periodo].inicio
    /\ \E i \in DOMAIN mv_base : mv_base[i].data >= mv_filtros[periodo].fim

\* The records of the claim, the filters taken one at a time in the order
\* operation, shift, client, date
C11_Contados(periodo) ==
    LET porOperacao == SelectSeq(mv_base, LAMBDA r :
            mv_filtros.operacao = {"Todas"} \/ r.OPERACAO \in mv_filtros.operacao)
        porTurno == SelectSeq(porOperacao, LAMBDA r :
            mv_filtros.turno = {"Todos"} \/ C3_Turno(r.hora) \in mv_filtros.turno)
        porCliente == SelectSeq(porTurno, LAMBDA r :
            mv_filtros.cliente = {"Todos"} \/ r.CLIENTE \in mv_filtros.cliente)
    IN  SelectSeq(porCliente, LAMBDA r :
            /\ mv_filtros[periodo].inicio <= r.data
            /\ r.data <= mv_filtros[periodo].fim)

\* The quantity the table reports for an operation (0: no row)
C11_Quantidade(tabela, o) ==
    IF \E i \in DOMAIN tabela : tabela[i].chave = o
    THEN (CHOOSE l \in Range(tabela) : l.chave = o).quantidade
    ELSE 0

C11_Soma(tabela) == SumSeq([i \in DOMAIN tabela |-> tabela[i].quantidade])

C12_Mensagens(periodo) ==
    SelectSeq(mv_msgs, LAMBDA m : m.origem = periodo)

\* The period starts before the earliest or ends after the latest date of
\* the base
C12_ForaDoIntervalo(periodo) ==
    \/ \A i \in DOMAIN mv_base : mv_filtros[periodo].inicio < mv_base[i].data
    \/ \A i \in DOMAIN mv_base : mv_filtros[periodo].fim > mv_base[i].data

\* C12: calcular_movimentacao_por_periodo of mov_operacao returns an empty
\* table with an error message whenever the period starts before the
\* earliest or ends after the latest date of the base, even when it overlaps
\* the data, and an empty table with a warning when the base is empty or no
\* record passes the filters; mostrar_aba then draws no chart and no
\* insights if either table is empty.
C12_PeriodoForaDoIntervalo ==
    mv_modulo = "mov_operacao" =>
        /\ \A p \in C11_Calculados :
             /\ (mv_base # <<>> /\ C12_ForaDoIntervalo(p)) =>
                    /\ C11_Tabela(p) = <<>>
                    /\ Len(C12_Mensagens(p)) = 1
                    /\ C12_Mensagens(p)[1].nivel = "error"
             /\ (mv_base = <<>> \/ (~C12_ForaDoIntervalo(p) /\ C11_Contados(p) = <<>>)) =>
                    /\ C11_Tabela(p) = <<>>
                    /\ Len(C12_Mensagens(p)) = 1
                    /\ C12_Mensagens(p)[1].nivel = "warning"
        /\ (mv_pc = "done" /\ (mv_p1 = <<>> \/ mv_p2 = <<>>)) =>
             /\ mv_desenhos = <<>>
             /\ ~mv_comparou

\* C12 witness: periodo1 starts a day before the earliest date of a base that
\* has records inside it; the tab ended without chart or insights
C12_Witness ==
    /\ mv_modulo = "mov_operacao"
    /\ mv_pc = "done"
    /\ mv_filtros.periodo1 = [inicio |-> 0, fim |-> 1]
    /\ \E i \in DOMAIN mv_base : mv_base[i].data = 1 /\ mv_base[i].OPERACAO = "O1"
    /\ \E i \in DOMAIN mv_base : mv_base[i].data = 2
    /\ mv_p1 = <<>>
    /\ mv_p2 # <<>>
    /\ mv_desenhos = <<>>

\* ------------------------------------------------------------------------
\* calcular_gates_hora (operacoes_clientes/gates_hora)
\* ------------------------------------------------------------------------
SEGUNDOS_HORA == 3600
SEGUNDOS_MINUTO == 60

\* A service of the base: the date of its retirada, its inicio in seconds of
\* the day, its guichê and usuário, its client and operation
Servico(d, i, g, u, c, o) ==
    [data |-> d, inicio |-> i, guiche |-> g, usuario |-> u, CLIENTE |-> c,
     OPERACAO |-> o]

\* The services a base of this specification is drawn from: 08:00:00,
\* 08:00:30 and 08:45 at gate G1, 08:45 and 09:10 at gate G2, one service
\* at 23:59 and one at 00:00, and two on a second day
ServicosPossiveis ==
    { Servico(1, 28800, "G1", "u1", "C1", "O1"),
      Servico(1, 28830, "G1", "u1", "C1", "O1"),
      Servico(1, 31500, "G1", "u1", "C2", "O1"),
      Servico(1, 31500, "G2", "u2", "C1", "O2"),
      Servico(1, 33000, "G2", "u2", "C1", "O1"),
      Servico(1, 86340, "G1", "u1", "C1", "O1"),
      Servico(2, 0, "G2", "u2", "C1", "O1"),
      Servico(2, 28800, "G1", "u1", "C1", "O1"),
      Servico(2, 28800, "G2", "u2", "C2", "O2") }

\* groupby('guichê') sorts its keys
GatesEmOrdem == <<"G1", "G2">>

\* The arguments of a call ("" : cliente or operacao None; 0: no
\* data_especifica)
ArgsGates(ini, fim, cli, op, de) ==
    [periodo2 |-> [inicio |-> ini, fim |-> fim], cliente |-> cli,
     operacao |-> op, data_especifica |-> de]

ArgsGatesPossiveis ==
    { ArgsGates(1, 2, "", "", 0),
      ArgsGates(2, 2, "C1", "", 0),
      ArgsGates(1, 2, "", "O1", 0),
      ArgsGates(2, 2, "", "", 1) }

\* The date mask and the client and operation filters
PassaFiltrosGates(r, a) ==
    /\ IF a.data_especifica # 0
       THEN r.data = a.data_especifica
       ELSE r.data >= a.periodo2.inicio /\ r.data <= a.periodo2.fim
    /\ a.cliente # "" => r.CLIENTE = a.cliente
    /\ a.operacao # "" => r.OPERACAO = a.operacao

\* df_filtrado['inicio'].dt.hour
HoraDoInicio(r) == r.inicio \div SEGUNDOS_HORA

DaHora(df, hora) == SelectSeq(df, LAMBDA r : HoraDoInicio(r) = hora)

\* Mutant of GatesAtivos: the services of the hour counted, not the gates
GatesAtivos_Mut(df, hora) == Len(DaHora(df, hora))

\* groupby(hour)['guichê'].nunique(): the map gives no value (fillna(0))
\* for an hour without rows
GatesAtivos(df, hora) ==
    Cardinality({DaHora(df, hora)[i].guiche : i \in DOMAIN DaHora(df, hora)})

\* groupby(hour)['id'].count(), every row carrying its id
AtendimentosDaHora(df, hora) == Len(DaHora(df, hora))

\* atendimentos / gates_ativos, then fillna(0): the NaN of 0/0 becomes 0;
\* a zero denominator stands for the inf of a division of a positive number
MediaPorGate(atendimentos, gates_ativos) ==
    IF atendimentos = 0 /\ gates_ativos = 0
    THEN [num |-> 0, den |-> 1]
    ELSE [num |-> atendimentos, den |-> gates_ativos]

\* metricas_hora: one row for each value of range(24)
MetricasHora(df) ==
    [k \in 1..24 |->
        [hora |-> k - 1,
         gates_ativos |-> GatesAtivos(df, k - 1),
         atendimentos |-> AtendimentosDaHora(df, k - 1),
         media_atendimentos_gate |->
            MediaPorGate(AtendimentosDaHora(df, k - 1), GatesAtivos(df, k - 1))]]

\* round() of n / d, n >= 0 and d > 0: a half goes to the even neighbour
Arredondar(n, d) ==
    LET q == n \div d
        r == n % d
    IN  IF 2 * r < d THEN q
        ELSE IF 2 * r > d THEN q + 1
        ELSE IF q % 2 = 0 THEN q ELSE q + 1

MinInicio(s) == CHOOSE x \in {s[i].inicio : i \in DOMAIN s} :
                    \A i \in DOMAIN s : x <= s[i].inicio
MaxInicio(s) == CHOOSE x \in {s[i].inicio : i \in DOMAIN s} :
                    \A i \in DOMAIN s : x >= s[i].inicio

\* ((fim - inicio).dt.total_seconds() / 60).round(0), in minutes
TempoOperacao(inicio, fim) == Arredondar(fim - inicio, SEGUNDOS_MINUTO)

\* (atendimentos / (tempo_operacao / 60)).round(1), in tenths; the division
\* of a count by a tempo_operacao of 0 gives inf
AtendPorHora(atendimentos, tempo_operacao) ==
    IF tempo_operacao = 0
    THEN [finito |-> FALSE, decimos |-> 0]
    ELSE [finito |-> TRUE,
          decimos |-> Arredondar(atendimentos * 600, tempo_operacao)]

\* One row of `detalhes`: a gate's services of the hour aggregated
DetalheDoGate(da_hora, gate) ==
    LET do_gate == SelectSeq(da_hora, LAMBDA r : r.guiche = gate)
        tempo == TempoOperacao(MinInicio(do_gate), MaxInicio(do_gate))
    IN  [gate |-> gate, atendimentos |-> Len(do_gate),
         inicio |-> MinInicio(do_gate), fim |-> MaxInicio(do_gate),
         usuario |-> do_gate[1].usuario,
         tempo_operacao |-> tempo,
         atend_por_hora |-> AtendPorHora(Len(do_gate), tempo)]

\* detalhes_gates[hora]: a row per gate with a service in the hour
DetalhesDaHora(df, hora) ==
    LET da_hora == DaHora(df, hora)
        gates == SelectSeq(GatesEmOrdem,
                    LAMBDA g : \E i \in DOMAIN da_hora : da_hora[i].guiche = g)
    IN  [i \in DOMAIN gates |-> DetalheDoGate(da_hora, gates[i])]

\* calcular_gates_hora(dados, filtros, cliente, operacao, data_especifica)
GtCalcular ==
    /\ gt_pc = "chamada"
    /\ UNCHANGED foraGt
    /\ LET df_filtrado == SelectSeq(gt_base,
               LAMBDA r : PassaFiltrosGates(r, gt_args))
       IN  /\ gt_filtrado' = df_filtrado
           /\ gt_metricas' = MetricasHora(df_filtrado)
           /\ gt_detalhes' = [k \in 1..24 |-> DetalhesDaHora(df_filtrado, k - 1)]
    /\ gt_pc' = "done"
    /\ UNCHANGED <<gt_base, gt_args>>

InitGates ==
    /\ OutrosParados("gt")
    /\ gt_base \in SeqsUpTo(ServicosPossiveis, MaxServicos)
    /\ gt_args \in ArgsGatesPossiveis
    /\ gt_pc = "chamada"
    /\ gt_filtrado = <<>>
    /\ gt_metricas = <<>>
    /\ gt_detalhes = <<>>

NextGates == GtCalcular

\* ========================================================================
\* Claims about calcular_gates_hora
\* ========================================================================

\* The filtered services that start in an hour
C13_NaHora(h) ==
    {i \in DOMAIN gt_filtrado :
        /\ gt_filtrado[i].inicio >= h * 3600
        /\ gt_filtrado[i].inicio < (h + 1) * 3600}

\* C13: metricas_hora has exactly one row for each hour 0..23; gates_ativos
\* is the number of distinct guichê with a service starting in the hour
\* among the filtered records, atendimentos the number of such services, and
\* media_atendimentos_gate their quotient, 0 for an hour with no active gate.
C13_MetricasPorHora ==
    gt_pc = "done" =>
        /\ Len(gt_metricas) = 24
        /\ \A h \in 0..23 :
             LET l == gt_metricas[h + 1]
                 gates == {gt_filtrado[i].guiche : i \in C13_NaHora(h)}
             IN  /\ l.hora = h
                 /\ l.gates_ativos = Cardinality(gates)
                 /\ l.atendimentos = Cardinality(C13_NaHora(h))
                 /\ l.media_atendimentos_gate.den # 0
                 /\ IF gates = {}
                    THEN l.media_atendimentos_gate.num = 0
                    ELSE l.media_atendimentos_gate.num * Cardinality(gates)
                            = Cardinality(C13_NaHora(h)) * l.media_atendimentos_gate.den

\* C13 witness: three services at two gates in the hour of 08:00 (1.5 per
\* gate) and no service in the hour of 10:00
C13_Witness ==
    /\ gt_pc = "done"
    /\ gt_metricas[9].gates_ativos = 2
    /\ gt_metricas[9].atendimentos = 3
    /\ gt_metricas[9].media_atendimentos_gate = [num |-> 3, den |-> 2]
    /\ gt_metricas[11].media_atendimentos_gate = [num |-> 0, den |-> 1]

\* C19: for every hour and every gate active in it, atend_por_hora of the
\* gate details is a finite number, also for a gate with a single service in
\* the hour or whose services of the hour start within the same minute.
C19_Original ==
    gt_pc = "done" =>
        \A h \in 0..23 :
            \A i \in DOMAIN gt_detalhes[h + 1] :
                gt_detalhes[h + 1][i].atend_por_hora.finito

\* C19 witness: a gate with two services in the hour of 08:00, thirty
\* seconds apart, and a tempo_operacao of 0 minutes
C19_Witness ==
    /\ gt_pc = "done"
    /\ \E i \in DOMAIN gt_detalhes[9] :
         /\ gt_detalhes[9][i].atendimentos = 2
         /\ gt_detalhes[9][i].fim - gt_detalhes[9][i].inicio = 30
         /\ gt_detalhes[9][i].tempo_operacao = 0

\* ------------------------------------------------------------------------
\* criar_mapa_calor (operacoes_clientes/comboio_i)
\* ------------------------------------------------------------------------

\* A calendar date of 2025 and a withdrawal of the base
Dia(d, m) == [dia |-> d, mes |-> m]
Senha(data, h, c) == [data |-> data, hora |-> h, CLIENTE |-> c]

\* The withdrawals a base of this specification is drawn from: three
\* consecutive days across the end of a month, at 00h, 08h and 23h
SenhasPossiveis ==
    { Senha(Dia(30, 4), 8, "C1"), Senha(Dia(30, 4), 8, "C2"),
      Senha(Dia(30, 4), 23, "C1"), Senha(Dia(1, 5), 0, "C1"),
      Senha(Dia(1, 5), 8, "C2"), Senha(Dia(2, 5), 8, "C1") }

\* The arguments of a call ("" : cliente None)
ArgsMapa(ini, fim, cli) ==
    [periodo2 |-> [inicio |-> ini, fim |-> fim], cliente |-> cli]

ArgsMapaPossiveis ==
    { ArgsMapa(Dia(30, 4), Dia(2, 5), ""),
      ArgsMapa(Dia(1, 5), Dia(2, 5), ""),
      ArgsMapa(Dia(30, 4), Dia(2, 5), "C1") }

\* date <= date: the month first, then the day
DataAteh(a, b) == a.mes < b.mes \/ (a.mes = b.mes /\ a.dia <= b.dia)

\* strftime('%d/%m/%Y') of a date of 2025, as a tuple of characters
Digitos == <<"0", "1", "2", "3", "4", "5", "6", "7", "8", "9">>
DoisDigitos(n) == <<Digitos[(n \div 10) + 1], Digitos[(n % 10) + 1]>>
Rotulo(data) ==
    DoisDigitos(data.dia) \o <<"/">> \o DoisDigitos(data.mes)
        \o <<"/", "2", "0", "2", "5">>

\* The order of the characters of a label ('/' sorts before the digits)
OrdemChar(c) == IF c = "/" THEN 0 ELSE CHOOSE k \in 1..10 : Digitos[k] = c

\* a <= b for two labels of the same length, as Python compares strings
RECURSIVE RotuloAteh(_, _)
RotuloAteh(a, b) ==
    IF a = <<>> THEN TRUE
    ELSE IF OrdemChar(Head(a)) < OrdemChar(Head(b)) THEN TRUE
    ELSE IF OrdemChar(Head(a)) > OrdemChar(Head(b)) THEN FALSE
    ELSE RotuloAteh(Tail(a), Tail(b))

\* The sorted index of the pivot: the labels that occur, each once
RECURSIVE OrdenarRotulos(_)
OrdenarRotulos(S) ==
    IF S = {} THEN <<>>
    ELSE LET menor == CHOOSE x \in S : \A y \in S : RotuloAteh(x, y)
         IN  <<menor>> \o OrdenarRotulos(S \ {menor})

\* sorted() of a sequence of hours
RECURSIVE OrdenarHoras(_)
OrdenarHoras(s) ==
    IF s = <<>> THEN <<>>
    ELSE LET menor == CHOOSE x \in Range(s) : \A y \in Range(s) : x <= y
         IN  <<menor>> \o OrdenarHoras(SelectSeq(s, LAMBDA y : y # menor))

\* The columns pivot_table gives (the hours that occur, in order) followed
\* by the hours of range(24) the loop adds
ColunasComTodasAsHoras(df) ==
    LET presentes == OrdenarHoras([i \in DOMAIN df |-> df[i].hora])
        faltantes == SelectSeq([k \in 1..24 |-> k - 1],
                        LAMBDA h : h \notin Range(presentes))
    IN  presentes \o faltantes

\* Mutant of ColunasDoPivot: the columns left as the loop put them
ColunasDoPivot_Mut(df) == ColunasComTodasAsHoras(df)

\* pivot.reindex(columns=sorted(pivot.columns))
ColunasDoPivot(df) == OrdenarHoras(ColunasComTodasAsHoras(df))

\* aggfunc='count' with fill_value=0, every row carrying its id
Celula(df, rotulo, hora) ==
    Len(SelectSeq(df, LAMBDA r : Rotulo(r.data) = rotulo /\ r.hora = hora))

\* The pivot of df_filtrado
Pivot(df) ==
    LET index == OrdenarRotulos({Rotulo(df[i].data) : i \in DOMAIN df})
        columns == ColunasDoPivot(df)
    IN  [columns |-> columns, index |-> index,
         values |-> [i \in DOMAIN index |->
                        [k \in DOMAIN columns |-> Celula(df, index[i], columns[k])]]]

\* The period-2 mask and the client filter
PassaFiltrosMapa(r, a) ==
    /\ DataAteh(a.periodo2.inicio, r.data)
    /\ DataAteh(r.data, a.periodo2.fim)
    /\ a.cliente # "" => r.CLIENTE = a.cliente

\* criar_mapa_calor(dados, filtros, cliente)
McCriarMapaCalor ==
    /\ mc_pc = "chamada"
    /\ UNCHANGED foraMc
    /\ LET df_filtrado == SelectSeq(mc_base, LAMBDA r : PassaFiltrosMapa(r, mc_args))
       IN  /\ mc_filtrado' = df_filtrado
           /\ mc_pivot' = Pivot(df_filtrado)
    /\ mc_pc' = "done"
    /\ UNCHANGED <<mc_base, mc_args>>

InitMapa ==
    /\ OutrosParados("mc")
    /\ mc_base \in SeqsUpTo(SenhasPossiveis, MaxRetiradas)
    /\ mc_args \in ArgsMapaPossiveis
    /\ mc_pc = "chamada"
    /\ mc_filtrado = <<>>
    /\ mc_pivot = NoneVal

NextMapa == McCriarMapaCalor

\* ========================================================================
\* Claims about criar_mapa_calor
\* ========================================================================

\* The period-2 records of the selected client
C14_Registros ==
    {i \in DOMAIN mc_base :
        /\ DataAteh(mc_args.periodo2.inicio, mc_base[i].data)
        /\ DataAteh(mc_base[i].data, mc_args.periodo2.fim)
        /\ mc_args.cliente = "" \/ mc_base[i].CLIENTE = mc_args.cliente}

C14_SomaDasCelulas ==
    SumSeq([i \in DOMAIN mc_pivot.values |-> SumSeq(mc_pivot.values[i])])

\* C14: for an input with at least one record the pivot has exactly the 24
\* hour columns 0..23 in ascending order and one row per date with a
\* withdrawal; each cell is the number of withdrawals of that date in that
\* hour, so the cells sum to the number of period-2 records of the client.
C14_PivotCompleto ==
    (mc_pc = "done" /\ mc_base # <<>>) =>
        /\ mc_pivot.columns = [k \in 1..24 |-> k - 1]
        /\ \A i, j \in DOMAIN mc_pivot.index :
             i # j => mc_pivot.index[i] # mc_pivot.index[j]
        /\ Len(mc_pivot.index)
             = Cardinality({mc_base[i].data : i \in C14_Registros})
        /\ \A d \in {mc_base[i].data : i \in C14_Registros} :
             \E n \in DOMAIN mc_pivot.index :
                /\ mc_pivot.index[n] = Rotulo(d)
                /\ \A h \in 0..23 :
                     mc_pivot.values[n][h + 1]
                        = Cardinality({i \in C14_Registros :
                              mc_base[i].data = d /\ mc_base[i].hora = h})
        /\ C14_SomaDasCelulas = Cardinality(C14_Registros)

\* C14 witness: a pivot with the rows of 01/05 and 30/04, two withdrawals in
\* one cell
C14_Witness ==
    /\ mc_pc = "done"
    /\ Len(mc_pivot.index) = 2
    /\ mc_pivot.index[1] = Rotulo(Dia(1, 5))
    /\ mc_pivot.index[2] = Rotulo(Dia(30, 4))
    /\ mc_pivot.values[2][9] = 2
    /\ C14_SomaDasCelulas = 3

\* ========================================================================
\* Claims about the counted gaps and the mean of calcular_ociosidade
\* ========================================================================

\* The gaps of the claim C15: strictly positive and shorter than 7200 s
C15_Contados(gaps) == SelectSeq(gaps, LAMBDA g : 0 < g /\ g < 7200)

\* C15: a gap between consecutive services counts toward idle time only if
\* it is strictly positive and shorter than 7200 seconds; overlapping or
\* back-to-back services and breaks of two hours or more contribute nothing.
C15_Original ==
    oc_pc = "done" =>
        /\ \A k \in DOMAIN oc_lista :
             LET contados == C15_Contados(
                     C2_Gaps(C2_Servicos(oc_lista[k].colaborador, oc_lista[k].data)))
             IN  /\ contados # <<>>
                 /\ oc_lista[k].tempo_ocioso <= SumSeq(contados)
        /\ \A i \in DOMAIN oc_filtrado :
             C15_Contados(C2_Gaps(C2_Servicos(oc_filtrado[i].usuario,
                                              oc_filtrado[i].data))) = <<>>
             => \A k \in DOMAIN oc_lista :
                    ~(/\ oc_lista[k].colaborador = oc_filtrado[i].usuario
                      /\ oc_lista[k].data = oc_filtrado[i].data)

\* C15 witness: a day whose only gap is a break of exactly 7200 seconds, for
\* which a daily idle time of 7200 seconds is recorded
C15_Witness ==
    /\ oc_pc = "done"
    /\ \E k \in DOMAIN oc_lista :
         /\ C2_Gaps(C2_Servicos(oc_lista[k].colaborador, oc_lista[k].data))
                = <<7200>>
         /\ oc_lista[k].tempo_ocioso = 7200


\* ------------------------------------------------------------------------
\* The mean over days needs a collaborator with two counted days, that is
\* four services: a smaller pool with one more service per base
\* ------------------------------------------------------------------------
AtendimentosDaMedia ==
    { Atendimento("u1", 1, 8, "C1", "O2", 100, 300),
      Atendimento("u1", 1, 16, "C2", "O1", 500, 600),
      Atendimento("u1", 1, 23, "C1", "O1", 7800, 7900),
      Atendimento("u1", 2, 8, "C1", "O2", 100, 300),
      Atendimento("u1", 2, 16, "C2", "O1", 900, 1000),
      Atendimento("u2", 1, 8, "C1", "O2", 100, 300) }

InitOcioMedia ==
    /\ OutrosParados("oc")
    /\ oc_base \in SeqsUpTo(AtendimentosDaMedia, MaxAtendimentos + 1)
    /\ oc_filtros = NoneVal
    /\ oc_periodo = "none"
    /\ oc_pc = "chamada"
    /\ oc_filtrado = <<>>
    /\ oc_lista = <<>>
    /\ oc_resultado = {}
    /\ oc_avisos = <<>>

\* The gaps the code counts on a collaborator's day, and the daily idle time
C16_ContadosDoDia(u, d) == C2_Contados(C2_Gaps(C2_Servicos(u, d)))

C16_Diario(u, d) ==
    LET contados == C16_ContadosDoDia(u, d)
    IN  IF Len(contados) >= 2
        THEN SumSeq(contados) - C2_Maior(contados)
        ELSE SumSeq(contados)

\* The days of a collaborator that have at least one counted gap
C16_Dias(u) ==
    {d \in {oc_filtrado[i].data : i \in DOMAIN oc_filtrado} :
        C16_ContadosDoDia(u, d) # <<>>}

RECURSIVE C16_SomaDosDias(_, _)
C16_SomaDosDias(u, D) ==
    IF D = {} THEN 0
    ELSE LET d == CHOOSE x \in D : TRUE
         IN  C16_Diario(u, d) + C16_SomaDosDias(u, D \ {d})

\* C16: the tempo_ocioso reported for a collaborator is the arithmetic mean
\* of the daily idle times over the days with at least one counted gap; a
\* day without a counted gap is left out of the mean, a collaborator with no
\* such day is absent, and the result is empty if no collaborator has one.
C16_MediaDosDiasContados ==
    oc_pc = "done" =>
        /\ \A u \in {oc_filtrado[i].usuario : i \in DOMAIN oc_filtrado} :
             IF C16_Dias(u) = {}
             THEN \A r \in oc_resultado : r.colaborador # u
             ELSE \E r \in oc_resultado :
                    /\ r.colaborador = u
                    /\ r.dias = Cardinality(C16_Dias(u))
                    /\ r.soma = C16_SomaDosDias(u, C16_Dias(u))
        /\ \A r, q \in oc_resultado : r.colaborador = q.colaborador => r = q
        /\ \A r \in oc_resultado :
             r.colaborador \in {oc_filtrado[i].usuario : i \in DOMAIN oc_filtrado}

\* C16 witness: a collaborator with daily idle times of 200 and 600 seconds
\* on two days, reported with their mean of 800 / 2
C16_Witness ==
    /\ oc_pc = "done"
    /\ [colaborador |-> "u1", soma |-> 800, dias |-> 2] \in oc_resultado

\* C16 second case, checked with the witness: a day worked without a counted
\* gap beside a day with one leaves the mean over the one day
C16_DiaSemIntervalo ==
    /\ oc_pc = "done"
    /\ [colaborador |-> "u1", soma |-> 200, dias |-> 1] \in oc_resultado
    /\ Cardinality({oc_filtrado[i].data : i \in DOMAIN oc_filtrado}) = 2


\* ------------------------------------------------------------------------
\* Claims about the join with the code table in carregar_dados
\* ------------------------------------------------------------------------
\* The rows of the code table with the prefixo of record r
C17_Codigos(r) == SelectSeq(retorno.codigo.rows, LAMBDA c : c.prefixo = r.prefixo)

\* Row b of the result is record r that passed validar_dados, with the
\* CLIENTE and OPERAÇÃO of a code row of its prefixo, or missing if none
C17_LinhaDe(b, r) ==
    /\ b.status = r.status
    /\ b.tpatend = r.tpatend
    /\ b.tpesper = r.tpesper
    /\ b.prefixo = r.prefixo
    /\ IF C17_Codigos(r) = <<>>
       THEN b.CLIENTE = "NaN" /\ b.OPERACAO = "NaN"
       ELSE \E i \in DOMAIN C17_Codigos(r) :
               /\ b.CLIENTE = C17_Codigos(r)[i].CLIENTE
               /\ b.OPERACAO = C17_Codigos(r)[i].OPERACAO

C17_UmaLinhaPorRegistro ==
    /\ Len(retorno.base.rows) = Len(vd_chamada.saida.rows)
    /\ \A i \in DOMAIN retorno.base.rows :
          C17_LinhaDe(retorno.base.rows[i], vd_chamada.saida.rows[i])

\* C17: the join with the code table neither drops nor duplicates records:
\* whenever carregar_dados returns a result, its base has exactly one row
\* for each record that passed validar_dados, and a record whose prefixo has
\* no entry in the code table is kept with CLIENTE and OPERAÇÃO missing.
C17_Original ==
    (retorno # NoneVal /\ retorno # Pendente) => C17_UmaLinhaPorRegistro

\* C17 witness: a result from a code table with two rows of one prefixo and
\* a validated record of that prefixo
C17_Witness ==
    /\ retorno # NoneVal
    /\ retorno # Pendente
    /\ \E i \in DOMAIN vd_chamada.saida.rows :
          Len(C17_Codigos(vd_chamada.saida.rows[i])) = 2
    /\ Len(retorno.base.rows) > Len(vd_chamada.saida.rows)

\* C17 on the code tables without a repeated prefixo
C17_SemPrefixoRepetido ==
    (/\ retorno # NoneVal
     /\ retorno # Pendente
     /\ \A i, j \in DOMAIN retorno.codigo.rows :
           retorno.codigo.rows[i].prefixo = retorno.codigo.rows[j].prefixo => i = j)
        => C17_UmaLinhaPorRegistro

\* C17 second case: a record without a code row is in the result
C17_SemCodigo ==
    /\ retorno # NoneVal
    /\ retorno # Pendente
    /\ \E i \in DOMAIN retorno.base.rows : retorno.base.rows[i].CLIENTE = "NaN"
    /\ C17_UmaLinhaPorRegistro

\* ========================================================================
\* Specifications: one per subsystem; the other subsystems rest idle
\* ========================================================================
SpecCarga == InitCarga /\ [][NextCarga]_vars

SpecValidacao == InitValidacao /\ [][NextValidacao]_vars

SpecColunas == InitColunas /\ [][NextColunas]_vars

SpecPainel == InitPainel /\ [][NextPainel]_vars

SpecTurno == InitTurno /\ [][NextTurno]_vars

SpecOcio == InitOcio /\ [][NextOcio]_vars

SpecOcioMedia == InitOcioMedia /\ [][NextOcio]_vars

SpecComboio == InitComboio /\ [][NextComboio]_vars

SpecMov == InitMov /\ [][NextMov]_vars

SpecGates == InitGates /\ [][NextGates]_vars

SpecMapa == InitMapa /\ [][NextMapa]_vars
====
